---- MODULE Spec2Model ----
(***************************************************************************)
(* Triage / grooming decision engine of cmh-demos/kimberly.                *)
(*                                                                         *)
(*   scripts/grooming_runner.py  main, process_issue, assign_issue, ...    *)
(*   scripts/triage_runner.py    main (the per-issue triage loop)          *)
(*   scripts/utils.py            retry_on_failure                          *)
(*                                                                         *)
(* Spec      one run of either runner: main, then the issue loop, one      *)
(*           action per rule block of the per-issue handler.               *)
(* SpecCall  one external call through retry_on_failure and the rate-limit *)
(*           handling of its call site.                                    *)
(***************************************************************************)
EXTENDS Integers, Sequences, FiniteSets, TLC

\* ---------------------------------------------------------------- bounds
MaxIssues == 2      \* issues returned by one search
MaxCap == 2         \* largest configured max_copilot_assigns_per_run

\* ------------------------------------------------------ program constants
DEFAULT_STALE_DAYS == 14

VARIABLES
    runner,                     \* "grooming" | "triage": which script runs
    env,                        \* os.environ and the rules files on disk
    cfg,                        \* settings main reads from the rules files
    pc,                         \* position of the process
    exit_code,                  \* main's return value (-1: still running)
    dry_run,                    \* main's dry_run local
    remaining,                  \* items of the batch not yet processed
    processed,                  \* passes completed in this run
    copilot_assigns_this_run,   \* grooming_runner.py module global
    issue,                      \* the snapshot the current pass works on
    notes,                      \* audit_entry["notes"], as a list of parts
    changed_fields,             \* the pass's changed_fields list
    calls,                      \* external calls the current pass has made
    evts,                       \* timeline answers the current pass got
    entry_fields,               \* triage: audit_entry["changed_fields"]
    logged,                     \* audit entries handed to the log so far
    streak,                     \* passes so far, while each took the assign branch
    plain,                      \* no pass so far saw a needs_work label
    site,                       \* SpecCall: the API function being called
    status,                     \* SpecCall: "idle" | "calling" | "backoff" | "returned" | "raised"
    attempt,                    \* SpecCall: retry_on_failure's loop variable
    invocations,                \* SpecCall: times the wrapped function ran
    delays,                     \* SpecCall: the backoff sleeps taken, in order
    last_exception,             \* SpecCall: retry_on_failure's last_exception
    rate_remaining,             \* SpecCall: X-RateLimit-Remaining of the response
    reset_in,                   \* SpecCall: X-RateLimit-Reset minus now, seconds
    slept,                      \* SpecCall: seconds slept for the rate limit
    main_calls,                 \* API calls main made before the loop
    nest,                       \* SpecNested: position in the nested wrapped calls
    http_attempts,              \* SpecNested: HTTP attempts sent, per request
    log_file,                   \* SpecLog: triage_log.json on disk
    tmp_file,                   \* SpecLog: the temporary file of the grooming write
    logs,                       \* SpecLog: the logs list in memory
    audit_entries,              \* SpecLog: entries the run still has to persist
    written,                    \* SpecLog: entries whose write has completed
    log_before,                 \* SpecLog: the file when the current write began
    archive_file                \* SpecLog: the rotation archive written by this run

runVars == <<runner, env, cfg, pc, exit_code, dry_run, remaining, processed,
             copilot_assigns_this_run, issue, notes, changed_fields, calls, evts,
             entry_fields, logged, streak, plain, main_calls>>

nestVars == <<nest, http_attempts>>

callVars == <<site, status, attempt, invocations, delays, last_exception,
              rate_remaining, reset_in, slept, nestVars>>

runVarsButPc == <<runner, env, cfg, exit_code, dry_run, remaining, processed,
                  copilot_assigns_this_run, issue, notes, changed_fields, calls, evts,
                  entry_fields, logged, streak, plain, main_calls>>

logVars == <<log_file, tmp_file, logs, audit_entries, written, log_before, archive_file>>

vars == <<runVars, callVars, logVars>>

\* ------------------------------------------------------------ vocabulary
NoIssue == [number |-> 0]

GROOMABLE_STATUS_LABELS == {"Backlog", "In progress"}

ASSIGNEE_FOR_NEEDS_INFO == "copilot-bot"
ASSIGNEE_FOR_NEEDS_WORK == "copilot"

MutatingOps == {"add_label", "remove_label", "assign_issue", "post_comment",
                "move_card", "close_issue", "post_label", "edit_title",
                "create_card", "delete_label"}

Call(rule, op, arg, res) == [rule |-> rule, op |-> op, arg |-> arg, res |-> res]

\* A call that reached the service and changed the issue.
Applied(c) == c.op \in MutatingOps /\ c.res = "ok"

CallsOf(rule, op) == {i \in 1..Len(calls) : calls[i].rule = rule /\ calls[i].op = op}

\* Timeline answer: get_most_recent_copilot_event raised, returned None, or
\* returned the most recent Copilot event with the time of the last error.
NoEvent == [status |-> "none", type |-> "other", created_at |-> 0, last_error_time |-> 0]
RaisedEvent == [status |-> "raise", type |-> "other", created_at |-> 0, last_error_time |-> 0]
Event(type, created_at, last_error_time) ==
    [status |-> "ok", type |-> type, created_at |-> created_at,
     last_error_time |-> last_error_time]
\* The returned event is the latest Copilot event (time 2 here); an earlier
\* error, if any, happened at time 1; 0 stands for None.
Events ==
    {Event("error", 2, 2), Event("finished", 2, 0), Event("finished", 2, 1),
     Event("start", 2, 1), Event("start", 2, 0), Event("start", 0, 1),
     Event("other", 2, 1)}
TimelineAnswers == Events \cup {NoEvent, RaisedEvent}


\* ------------------------------------------------------- configuration
\* Column ids of the project board (0: not configured / no card).
BACKLOG_COL == 1
IN_PROGRESS_COL == 2
IN_REVIEW_COL == 3
OTHER_COL == 4

\* What grooming main reads from the two rules files when they hold no
\* overrides (grooming_runner.py 1333-1384).
DefaultCfg ==
    [cap |-> 1,
     project_enabled |-> FALSE, project_id |-> 0, backlog_column_id |-> 0,
     in_progress_id |-> 0, in_review_id |-> 0,
     needs_info_variants |-> {"needs-info"},
     remove_triaged_on_needs_info |-> TRUE,
     move_to_backlog_if_triaged_and_backlog |-> TRUE,
     stale_enabled |-> FALSE, stale_labels |-> {}, stale_days |-> DEFAULT_STALE_DAYS,
     stale_action |-> "close",
     workflow_enabled |-> FALSE, transitions |-> <<>>]

\* A rules file that enables the project board with all its columns.
BoardCfg ==
    [DefaultCfg EXCEPT !.project_enabled = TRUE, !.project_id = 7,
                       !.backlog_column_id = BACKLOG_COL,
                       !.in_progress_id = IN_PROGRESS_COL,
                       !.in_review_id = IN_REVIEW_COL]

\* ... and stale handling on needs-info issues.
StaleCfg(action) ==
    [BoardCfg EXCEPT !.stale_enabled = TRUE, !.stale_labels = {"needs-info"},
                     !.stale_action = action]

WithCap(c, n) == [c EXCEPT !.cap = n]

\* os.environ and the files main looks for.
Tokens == {"", "ghp_token", "malformed"}
DefaultEnv ==
    [rules |-> TRUE, DRY_RUN |-> "", GITHUB_TOKEN |-> "ghp_token",
     GITHUB_REPOSITORY |-> TRUE, GROOMING_ACCESS_KEY |-> TRUE,
     protected_branch |-> TRUE, ISSUE_NUMBER |-> FALSE]

validate_github_token_none(token) == FALSE

\* validate_github_token: a known prefix, or 40 characters.
validate_github_token(token) == token = "ghp_token"

\* dry_run_env in ("1", "true", "yes")
\* Variant: only DRY_RUN=1 asks for a dry run.
DryRunFlag_exact(e) == e.DRY_RUN = "1"

DryRunFlag(e) == e.DRY_RUN \in {"1", "true", "yes"}

\* ------------------------------------------------------------ issues
\* Days between updated_at and now, as timedelta.days computes them from an
\* age given in half days.
days_since_update(i) == i.age \div 2

GroomingLabels == {"Triaged", "Backlog", "needs-info", "needs_work"}
\* updated_at is read only when stale handling is enabled.
GroomingIssues(c) ==
    [number : {1}, state : {"open", "closed"}, labels : SUBSET GroomingLabels,
     age : IF c.stale_enabled THEN {0, 2 * DEFAULT_STALE_DAYS + 2} ELSE {0},
     assignees : {{}}]

\* ------------------------------------------------------------ run state
InitWith(runners, envs, cfgs) ==
    /\ runner \in runners
    /\ env \in envs
    /\ cfg \in cfgs
    /\ pc = "main"
    /\ exit_code = -1
    /\ dry_run = FALSE
    /\ remaining = 0
    /\ processed = 0
    /\ copilot_assigns_this_run = 0
    /\ issue = NoIssue
    /\ notes = <<>>
    /\ changed_fields = <<>>
    /\ calls = <<>>
    /\ evts = <<>>
    /\ entry_fields = <<>>
    /\ logged = 0
    /\ streak = 0
    /\ plain = TRUE
    /\ main_calls = <<>>

Exit(code) ==
    /\ pc' = "exit"
    /\ exit_code' = code

\* grooming_runner.main up to the issue loop.
\* The API calls of main before the loop (grooming_runner.py 1423-1446): the
\* project-column validation when a token and a project are configured, then
\* the issue search.
grooming_main_calls(e, c) ==
    (IF e.GITHUB_TOKEN # "" /\ c.project_enabled /\ c.project_id # 0
     THEN <<"get_project_columns">> ELSE <<>>) \o <<"search_issues">>

grooming_main ==
    /\ runner = "grooming"
    /\ pc = "main"
    /\ UNCHANGED <<runner, env, cfg, processed, copilot_assigns_this_run, issue,
                   notes, changed_fields, calls, evts, entry_fields, logged, streak, plain,
                   callVars, logVars>>
    /\ IF ~env.rules
         THEN Exit(1) /\ UNCHANGED <<dry_run, remaining, main_calls>>
       ELSE IF env.GITHUB_TOKEN # "" /\ ~validate_github_token(env.GITHUB_TOKEN)
         THEN Exit(1) /\ dry_run' = DryRunFlag(env) /\ UNCHANGED <<remaining, main_calls>>
       ELSE IF ~env.GITHUB_REPOSITORY
         THEN Exit(0) /\ dry_run' = DryRunFlag(env) /\ UNCHANGED <<remaining, main_calls>>
       ELSE
         /\ dry_run' = (DryRunFlag(env) \/ env.GITHUB_TOKEN = "")
         /\ main_calls' = grooming_main_calls(env, cfg)
         \* github_search_issues: -1 stands for the call raising
         /\ \E found \in -1..MaxIssues :
              IF found = -1
                THEN Exit(1) /\ UNCHANGED remaining
              ELSE IF found = 0
                THEN Exit(0) /\ UNCHANGED remaining
              ELSE /\ pc' = "loop"
                   /\ remaining' = found
                   /\ UNCHANGED exit_code

\* ------------------------------------------------- grooming: one pass
\* Calls made in order inside one try block; the k-th raises (k = 0: none).
TryCalls(rule, plan, k) ==
    [i \in 1..(IF k = 0 THEN Len(plan) ELSE k) |->
        Call(rule, plan[i][1], plan[i][2], IF i = k THEN "raise" ELSE "ok")]

\* Project-card fallback of the status gate: the column holding the issue's
\* card (0: no card, -1: the lookup raised).
CardAnswers == {-1, 0, BACKLOG_COL, IN_PROGRESS_COL, IN_REVIEW_COL, OTHER_COL}

\* The name of the column in which the lookup found the card.
CardName(card) ==
    CASE card = BACKLOG_COL -> "Backlog"
      [] card = IN_PROGRESS_COL -> "In progress"
      [] card = IN_REVIEW_COL -> "In Review"
      [] card = OTHER_COL -> "Other"
      [] OTHER -> ""

status_allowed_any_card(i, c, card) ==
    \/ i.labels \cap GROOMABLE_STATUS_LABELS # {}
    \/ c.project_enabled /\ c.project_id # 0 /\ card > 0

status_allowed(i, c, card) ==
    \/ i.labels \cap GROOMABLE_STATUS_LABELS # {}
    \/ /\ c.project_enabled /\ c.project_id # 0
       /\ card > 0
       /\ \/ (c.backlog_column_id # 0 /\ card = c.backlog_column_id)
          \/ (c.in_progress_id # 0 /\ card = c.in_progress_id)

\* process_issue up to the status gate (grooming_runner.py 723-785).
process_issue_entry(candidates) ==
    /\ runner = "grooming"
    /\ pc = "loop"
    /\ remaining > 0
    /\ \E i \in candidates, card \in CardAnswers :
         LET lookup == /\ i.state # "closed"
                       /\ i.labels \cap GROOMABLE_STATUS_LABELS = {}
                       /\ cfg.project_enabled /\ cfg.project_id # 0
         IN  /\ issue' = i
             /\ calls' = IF lookup
                           THEN <<Call("guard", "get_project_columns", CardName(card),
                                       IF card = -1 THEN "raise" ELSE "ok")>>
                           ELSE <<>>
             /\ IF i.state = "closed"
                  THEN notes' = <<>> /\ pc' = "return"
                ELSE IF ~status_allowed(i, cfg, card)
                  THEN /\ notes' = <<"skipped - not in Backlog/In progress">>
                       /\ pc' = "return"
                ELSE notes' = <<>> /\ pc' = "stale"
    /\ changed_fields' = <<>>
    /\ evts' = <<>>
    /\ UNCHANGED <<runner, env, cfg, exit_code, dry_run, remaining, processed,
                   copilot_assigns_this_run, entry_fields,
                   logged, streak, plain, main_calls, callVars, logVars>>

process_issue_guards == process_issue_entry(GroomingIssues(cfg))

is_stale(i, c) ==
    /\ c.stale_enabled
    /\ days_since_update(i) > c.stale_days
    /\ i.labels \cap c.stale_labels # {}

stale_plan(c) ==
    CASE c.stale_action = "close" ->
            <<<<"post_comment", "stale">>, <<"close_issue", "">>>>
      [] c.stale_action = "comment" -> <<<<"post_comment", "stale">>>>
      [] c.stale_action = "label" -> <<<<"add_label", "stale">>>>
      [] OTHER -> <<>>

stale_changed(c) ==
    CASE c.stale_action = "close" -> <<"closed as stale">>
      [] c.stale_action = "comment" -> <<"commented as stale">>
      [] c.stale_action = "label" -> <<"labeled as stale">>
      [] OTHER -> <<>>

\* Stale check (grooming_runner.py 787-825).
process_issue_stale ==
    /\ runner = "grooming"
    /\ pc = "stale"
    /\ pc' = "needs_info"
    /\ IF ~is_stale(issue, cfg)
         THEN UNCHANGED <<notes, changed_fields, calls>>
       ELSE
         /\ notes' = Append(notes, "stale detected")
         /\ IF dry_run
              THEN /\ changed_fields' =
                        Append(changed_fields, "would " \o cfg.stale_action \o " as stale")
                   /\ UNCHANGED calls
              ELSE \E k \in 0..Len(stale_plan(cfg)) :
                     /\ calls' = calls \o TryCalls("stale", stale_plan(cfg), k)
                     /\ changed_fields' =
                          IF k = 0 THEN changed_fields \o stale_changed(cfg)
                                   ELSE changed_fields
    /\ UNCHANGED <<runner, env, cfg, exit_code, dry_run, remaining, processed,
                   copilot_assigns_this_run, issue, evts, entry_fields, logged, streak, plain, main_calls, callVars, logVars>>

\* assign_issue (grooming_runner.py 237-322): what one call does, given the
\* service's answer to the REST request and to the GraphQL fallback.
\*   "ok"       the assignee was set
\*   "skipped"  returned without a request (no GROOMING_ACCESS_KEY)
\*   "raise"    the error reached the caller
AssignAnswers == {"ok", "422_graphql_ok", "422_graphql_error", "error"}

assign_issue(assignee, e, answer) ==
    LET is_copilot_agent == assignee \in {"copilot-bot", "copilot"}
    IN  IF is_copilot_agent /\ ~e.GROOMING_ACCESS_KEY THEN "skipped"
        ELSE IF answer \in {"ok", "422_graphql_ok"} THEN "ok"
        ELSE "raise"

\* The branch the timeline answer selects (grooming_runner.py 837-879).
event_branch(evt) ==
    IF evt.status = "none" THEN "assign"
    ELSE IF evt.type = "finished" THEN "finished"
    ELSE IF evt.type = "error" THEN "error"
    ELSE IF /\ evt.type = "start" /\ evt.created_at # 0
            /\ evt.last_error_time # 0
            /\ evt.created_at > evt.last_error_time THEN "restarted"
    ELSE "assign"

in_review_configured(c) ==
    c.in_review_id # 0 /\ c.project_enabled /\ c.project_id # 0

\* move_issue_to_column (grooming_runner.py 672-694): the lookup may raise,
\* find no card (then nothing is moved), or find it and move it - also when
\* it finds the card in the target column ("already_there").
MoveAnswers == {"lookup_error", "no_card", "moved", "already_there", "move_error"}

move_calls(rule, column, answer) ==
    CASE answer = "lookup_error" -> <<Call(rule, "get_project_columns", column, "raise")>>
      [] answer = "no_card" -> <<Call(rule, "get_project_columns", column, "ok"),
                                 Call(rule, "find_card_for_issue", "", "ok")>>
      [] answer = "moved" -> <<Call(rule, "get_project_columns", column, "ok"),
                               Call(rule, "find_card_for_issue", "other column", "ok"),
                               Call(rule, "move_card", column, "ok")>>
      [] answer = "already_there" -> <<Call(rule, "get_project_columns", column, "ok"),
                                       Call(rule, "find_card_for_issue", column, "ok"),
                                       Call(rule, "move_card", column, "ok")>>
      [] answer = "move_error" -> <<Call(rule, "get_project_columns", column, "ok"),
                                    Call(rule, "find_card_for_issue", "other column", "ok"),
                                    Call(rule, "move_card", column, "raise")>>

move_raised(answer) == answer \in {"lookup_error", "move_error"}

has_needs_info(i, c) == i.labels \cap c.needs_info_variants # {}

timeline_call(rule, evt) ==
    Call(rule, "get_most_recent_copilot_event", "",
         IF evt.status = "raise" THEN "raise" ELSE "ok")

\* The "finished" branch of either rule: move to In Review, no slot used
\* (grooming_runner.py 840-865 and 951-973).
finished_branch(rule, base) ==
    /\ UNCHANGED copilot_assigns_this_run
    /\ IF in_review_configured(cfg)
         THEN \E mv \in MoveAnswers :
                /\ calls' = calls \o <<timeline_call(rule, NoEvent)>>
                                  \o move_calls(rule, "in_review", mv)
                /\ IF move_raised(mv)
                     THEN /\ notes' = base
                          /\ UNCHANGED changed_fields
                     ELSE /\ changed_fields' = Append(changed_fields,
                                "moved to In Review (copilot finished work)")
                          /\ notes' = Append(base,
                                "moved to In Review (copilot finished)")
         ELSE /\ calls' = Append(calls, timeline_call(rule, NoEvent))
              /\ notes' = Append(base,
                    "would move to In Review (no column configured)")
              /\ UNCHANGED changed_fields

\* Variant: a denial leaves no note.
denied_branch_silent(rule, base, note) ==
    /\ calls' = Append(calls, timeline_call(rule, NoEvent))
    /\ notes' = base
    /\ UNCHANGED <<changed_fields, copilot_assigns_this_run>>

\* A denial branch of either rule: only a note is left.
denied_branch(rule, base, note) ==
    /\ calls' = Append(calls, timeline_call(rule, NoEvent))
    /\ notes' = Append(base, note)
    /\ UNCHANGED <<changed_fields, copilot_assigns_this_run>>

\* Variant: the slot check compares with > in place of >=.
slot_free_off_by_one == ~(copilot_assigns_this_run > cfg.cap)

\* The slot check of either rule (grooming_runner.py 881-889, 910-915,
\* 988-996, 1025-1030).
slot_free == ~(copilot_assigns_this_run >= cfg.cap)

\* needs-info: take a slot, assign, remove Triaged (grooming_runner.py
\* 889-907 and 915-930).
needs_info_assign(base) ==
    /\ copilot_assigns_this_run' = copilot_assigns_this_run + 1
    /\ \E answer \in AssignAnswers, rm \in {"ok", "raise"} :
         LET res == assign_issue(ASSIGNEE_FOR_NEEDS_INFO, env, answer)
             assigned == Call("needs-info", "assign_issue", ASSIGNEE_FOR_NEEDS_INFO, res)
             removes == cfg.remove_triaged_on_needs_info /\ "Triaged" \in issue.labels
             before == Append(calls, timeline_call("needs-info", NoEvent))
         IN  IF res = "raise"
               THEN /\ calls' = Append(before, assigned)
                    /\ UNCHANGED changed_fields
             ELSE IF removes /\ rm = "raise"
               THEN /\ calls' = before \o <<assigned,
                                  Call("needs-info", "remove_label", "Triaged", "raise")>>
                    /\ UNCHANGED changed_fields
             ELSE IF removes
               THEN /\ calls' = before \o <<assigned,
                                  Call("needs-info", "remove_label", "Triaged", "ok")>>
                    /\ changed_fields' = changed_fields \o
                          <<"removed Triaged", "assigned to " \o ASSIGNEE_FOR_NEEDS_INFO>>
             ELSE /\ calls' = Append(before, assigned)
                  /\ changed_fields' = Append(changed_fields,
                          "assigned to " \o ASSIGNEE_FOR_NEEDS_INFO)
    /\ notes' = base

\* needs-info rule (grooming_runner.py 827-937).
process_issue_needs_info ==
    /\ runner = "grooming"
    /\ pc = "needs_info"
    /\ pc' = "needs_work"
    /\ IF ~has_needs_info(issue, cfg)
         THEN UNCHANGED <<notes, changed_fields, calls, evts, copilot_assigns_this_run>>
       ELSE IF dry_run
         THEN /\ notes' = Append(notes, "needs-info detected")
              /\ changed_fields' = Append(changed_fields,
                    "would assign to " \o ASSIGNEE_FOR_NEEDS_INFO \o " and remove Triaged")
              /\ UNCHANGED <<calls, evts, copilot_assigns_this_run>>
       ELSE \E evt \in TimelineAnswers :
              /\ evts' = Append(evts, [rule |-> "needs-info", evt |-> evt])
              /\ LET detected == Append(notes, "needs-info detected")
                     branch == event_branch(evt)
                 IN  IF evt.status = "raise"
                       THEN /\ calls' = Append(calls, timeline_call("needs-info", evt))
                            /\ notes' = detected
                            /\ UNCHANGED <<changed_fields, copilot_assigns_this_run>>
                     ELSE IF branch = "finished"
                       THEN finished_branch("needs-info", detected)
                     ELSE IF branch = "error"
                       THEN denied_branch("needs-info", detected,
                                "skipped assign - recent copilot error")
                     ELSE IF branch = "restarted"
                       THEN denied_branch("needs-info", detected,
                                "skipped assign - copilot restarted after error")
                     ELSE IF ~slot_free
                       THEN denied_branch("needs-info", detected,
                                "skipped assign - per-run cap reached")
                     ELSE needs_info_assign(detected)
    /\ UNCHANGED <<runner, env, cfg, exit_code, dry_run, remaining, processed,
                   issue, entry_fields, logged, streak, plain, main_calls, callVars, logVars>>

NEEDS_WORK_GUIDANCE == "needs_work guidance"

\* needs_work: take a slot, assign, post the guidance comment
\* (grooming_runner.py 996-1023 and 1030-1053).
needs_work_assign(base) ==
    /\ copilot_assigns_this_run' = copilot_assigns_this_run + 1
    /\ \E answer \in AssignAnswers, cm \in {"ok", "raise"} :
         LET res == assign_issue(ASSIGNEE_FOR_NEEDS_WORK, env, answer)
             assigned == Call("needs_work", "assign_issue", ASSIGNEE_FOR_NEEDS_WORK, res)
             before == Append(calls, timeline_call("needs_work", NoEvent))
         IN  IF res = "raise"
               THEN /\ calls' = Append(before, assigned)
                    /\ UNCHANGED changed_fields
             ELSE /\ calls' = before \o <<assigned,
                        Call("needs_work", "post_comment", NEEDS_WORK_GUIDANCE, cm)>>
                  /\ changed_fields' = changed_fields \o
                        (IF cm = "raise"
                           THEN <<"assigned to " \o ASSIGNEE_FOR_NEEDS_WORK>>
                           ELSE <<"assigned to " \o ASSIGNEE_FOR_NEEDS_WORK,
                                  "commented needs_work guidance">>)
    /\ notes' = base

\* needs_work rule (grooming_runner.py 939-1059).
process_issue_needs_work ==
    /\ runner = "grooming"
    /\ pc = "needs_work"
    /\ pc' = "backlog"
    /\ IF "needs_work" \notin issue.labels
         THEN UNCHANGED <<notes, changed_fields, calls, evts, copilot_assigns_this_run>>
       ELSE IF dry_run
         THEN /\ notes' = Append(notes, "needs_work detected")
              /\ changed_fields' = Append(changed_fields,
                    "would assign to " \o ASSIGNEE_FOR_NEEDS_WORK \o " and comment")
              /\ UNCHANGED <<calls, evts, copilot_assigns_this_run>>
       ELSE \E evt \in TimelineAnswers :
              /\ evts' = Append(evts, [rule |-> "needs_work", evt |-> evt])
              /\ LET detected == Append(notes, "needs_work detected")
                     branch == event_branch(evt)
                 IN  IF evt.status = "raise"
                       THEN /\ calls' = Append(calls, timeline_call("needs_work", evt))
                            /\ notes' = detected
                            /\ UNCHANGED <<changed_fields, copilot_assigns_this_run>>
                     ELSE IF branch = "finished"
                       THEN finished_branch("needs_work", detected)
                     ELSE IF branch = "error"
                       THEN denied_branch("needs_work", detected,
                                "skipped assign - recent copilot error")
                     ELSE IF branch = "restarted"
                       THEN denied_branch("needs_work", detected,
                                "skipped assign - copilot restarted after error")
                     ELSE IF ~slot_free
                       THEN denied_branch("needs_work", detected,
                                "skipped assign - per-run cap reached")
                     ELSE needs_work_assign(detected)
    /\ UNCHANGED <<runner, env, cfg, exit_code, dry_run, remaining, processed,
                   issue, entry_fields, logged, streak, plain, main_calls, callVars, logVars>>

\* Triaged + Backlog: move the card to the Backlog column
\* (grooming_runner.py 1061-1086).
\* The label list the Triaged+Backlog rule would see if it were read again
\* after the needs-info rule removed Triaged.
labels_after_removal ==
    IF \E k \in 1..Len(calls) : /\ calls[k].op = "remove_label"
                                /\ calls[k].arg = "Triaged" /\ calls[k].res = "ok"
      THEN issue.labels \ {"Triaged"} ELSE issue.labels

\* labels: the names read from the issue at the entry of process_issue
\* (grooming_runner.py 726-730); no later rule reads the issue again.
snapshot_labels == issue.labels

\* Triaged+Backlog rule (grooming_runner.py 1061-1086).
process_issue_backlog ==
    /\ runner = "grooming"
    /\ pc = "backlog"
    /\ pc' = "workflow"
    /\ IF ~(/\ "Triaged" \in snapshot_labels /\ "Backlog" \in snapshot_labels
            /\ cfg.project_enabled /\ cfg.backlog_column_id # 0
            /\ cfg.move_to_backlog_if_triaged_and_backlog)
         THEN UNCHANGED <<notes, changed_fields, calls>>
       ELSE
         /\ notes' = Append(notes, "Triaged+Backlog detected")
         /\ IF dry_run
              THEN /\ changed_fields' = Append(changed_fields,
                                                "would move to Backlog column")
                   /\ UNCHANGED calls
              ELSE \E mv \in MoveAnswers :
                     /\ calls' = calls \o move_calls("backlog", "Backlog", mv)
                     /\ changed_fields' =
                          IF move_raised(mv) THEN changed_fields
                          ELSE Append(changed_fields, "moved to Backlog column")
    /\ UNCHANGED <<runner, env, cfg, exit_code, dry_run, remaining, processed,
                   copilot_assigns_this_run, issue, evts, entry_fields, logged, streak, plain, main_calls, callVars, logVars>>

\* project_columns.get(to_column.lower().replace(" ", "_"))
target_column_id(c, to_column) ==
    CASE to_column = "In progress" -> c.in_progress_id
      [] to_column = "In review" -> c.in_review_id
      [] OTHER -> 0

transition_matches(t, i) ==
    /\ t.labels \subseteq i.labels
    /\ (t.assignee = "" \/ t.assignee \in i.assignees)
    /\ t.not_labels \cap i.labels = {}

\* Index of the first matching transition (0: none).
last_match(ts, i) ==
    LET hits == {k \in 1..Len(ts) : transition_matches(ts[k], i)}
    IN  IF hits = {} THEN 0 ELSE CHOOSE k \in hits : \A j \in hits : k >= j

first_match(ts, i) ==
    LET hits == {k \in 1..Len(ts) : transition_matches(ts[k], i)}
    IN  IF hits = {} THEN 0 ELSE CHOOSE k \in hits : \A j \in hits : k <= j

\* Workflow transitions (grooming_runner.py 1088-1143).
process_issue_workflow ==
    /\ runner = "grooming"
    /\ pc = "workflow"
    /\ pc' = "return"
    /\ LET m == IF cfg.workflow_enabled /\ cfg.project_enabled /\ cfg.project_id # 0
                  THEN first_match(cfg.transitions, issue) ELSE 0
           to_column == IF m = 0 THEN "" ELSE cfg.transitions[m].to_column
       IN  IF m = 0 \/ target_column_id(cfg, to_column) = 0
             THEN UNCHANGED <<notes, changed_fields, calls>>
           ELSE
             /\ notes' = Append(notes, "workflow transition to " \o to_column)
             /\ IF dry_run
                  THEN /\ changed_fields' = Append(changed_fields,
                              "would move to " \o to_column \o " column")
                       /\ UNCHANGED calls
                  ELSE \E mv \in MoveAnswers :
                         /\ calls' = calls \o move_calls("workflow", to_column, mv)
                         /\ changed_fields' =
                              IF move_raised(mv) THEN changed_fields
                              ELSE Append(changed_fields,
                                      "moved to " \o to_column \o " column")
    /\ UNCHANGED <<runner, env, cfg, exit_code, dry_run, remaining, processed,
                   copilot_assigns_this_run, issue, evts, entry_fields, logged, streak, plain, main_calls, callVars, logVars>>

\* Notes an except handler of either runner adds to the audit entry: none,
\* the handlers only log (grooming_runner.py 824-825, 935-936, 1057-1058,
\* 1085-1086, 1142-1143; triage_runner.py 809-815).
FailureNotes == {}

\* ---- the run's view of a finished pass
event_of(rule) ==
    LET hits == {k \in 1..Len(evts) : evts[k].rule = rule}
    IN  IF hits = {} THEN RaisedEvent ELSE evts[CHOOSE k \in hits : TRUE].evt

\* A live pass over a needs-info issue in which every timeline answer led to
\* the slot check.
slot_candidate ==
    /\ ~dry_run
    /\ has_needs_info(issue, cfg)
    /\ \E k \in 1..Len(evts) : evts[k].rule = "needs-info"
    /\ \A k \in 1..Len(evts) :
          evts[k].evt.status # "raise" /\ event_branch(evts[k].evt) = "assign"

\* process_issue returns; main appends the entry and takes the next item
\* (grooming_runner.py 1145-1153 and 1459-1484).
process_issue_return ==
    /\ runner = "grooming"
    /\ pc = "return"
    /\ logged' = logged + 1
    /\ processed' = processed + 1
    /\ remaining' = remaining - 1
    /\ streak' = IF streak >= 0 /\ slot_candidate THEN streak + 1 ELSE -1
    /\ plain' = (plain /\ "needs_work" \notin issue.labels)
    /\ pc' = IF remaining = 1 THEN "persist" ELSE "loop"
    \* the pass's locals go out of scope
    /\ issue' = NoIssue
    /\ notes' = <<>>
    /\ changed_fields' = <<>>
    /\ calls' = <<>>
    /\ evts' = <<>>
    /\ UNCHANGED <<runner, env, cfg, exit_code, dry_run, copilot_assigns_this_run,
                   entry_fields, main_calls, callVars, logVars>>

\* The audit log is written and main returns 0 (grooming_runner.py 1486-1533).
grooming_persist ==
    /\ runner = "grooming"
    /\ pc = "persist"
    /\ Exit(0)
    /\ UNCHANGED <<runner, env, cfg, dry_run, remaining, processed,
                   copilot_assigns_this_run, issue, notes, changed_fields, calls,
                   evts, entry_fields, logged, streak, plain, main_calls, callVars, logVars>>


\* ------------------------------------------------- triage: configuration
\* What triage main reads from copilot_triage_rules.yml
\* (triage_runner.py 269-319, 550-552, 684-688, 768).
TriageCfg ==
    [required_fields |-> {"description"},
     allowed_sizes |-> {"xsmall", "small", "medium", "large", "epic"},
     skip_if_any_present |-> {"wontfix"},
     triaged_if |-> {"required_fields_present", "triage_owner_assigned",
                     "severity_assigned"},
     default_owner |-> "copilot-bot",
     label_to_severity |-> [l \in {"sev-low"} |-> "low"],
     project_enabled |-> FALSE, project_id |-> 0, backlog_column_id |-> 0]

\* ------------------------------------------------------ triage: issues
\* An issue as the triage pass reads it: its labels, the field tokens
\* ("name:" / "name=") found in the body, the value after size_estimate (""
\* when the body holds none), whether a PII pattern matches the body, whether
\* the title carries a bracketed priority tag, and the severity keyword found
\* in title and body ("" when none).
TriageIssue(labels, fields, size, pii, tagged, keyword) ==
    [number |-> 1, labels |-> labels, fields |-> fields, size |-> size,
     pii |-> pii, tagged |-> tagged, keyword |-> keyword]

missing_fields(i, c) == c.required_fields \ i.fields

\* Severity (triage_runner.py 494-521): a mapped label, else the keywords.
severity(i, c) ==
    LET mapped == i.labels \cap DOMAIN c.label_to_severity
    IN  IF mapped # {} THEN c.label_to_severity[CHOOSE l \in mapped : TRUE]
        ELSE IF i.keyword \in {"data loss", "complete loss"} \/ "security" \in i.labels
          THEN "critical"
        ELSE IF i.keyword \in {"block", "broken for many", "major"} THEN "high"
        ELSE IF i.keyword \in {"minor", "typo"} THEN "low"
        ELSE "medium"

\* Backlog gate (triage_runner.py 537-560 and 612-619).
product_ok(i) == "feature-request" \in i.labels => "product-approved" \in i.labels

\* Variant: the gate does not look at the size estimate.
can_add_backlog_unsized(i, c) == product_ok(i)

can_add_backlog(i, c) ==
    /\ i.size # ""
    /\ i.size \in c.allowed_sizes
    /\ product_ok(i)

\* audit_entry["notes"] and audit_entry["changed_fields"] as the analysis
\* part of the pass leaves them (triage_runner.py 411-416, 486-493).
triage_notes(i, c) ==
    IF missing_fields(i, c) # {} THEN <<"missing_fields">> ELSE <<>>

triage_entry_fields(i, c, dry) ==
    (IF missing_fields(i, c) # {} THEN <<"needs_info">> ELSE <<>>)
    \o (IF i.tagged /\ dry THEN <<"would_replace_title">> ELSE <<>>)

\* One planned call of the live block: the call, and the changed_fields
\* entry appended once it has returned ("" when none).
Step(op, arg, field) == <<op, arg, field>>

add_if_absent(i, label) ==
    IF label \in i.labels THEN <<>> ELSE <<Step("post_label", label, label)>>

\* The live block up to the label refresh (triage_runner.py 566-696).
triage_plan_before_refresh(i, c) ==
    (IF i.pii THEN add_if_absent(i, "security")
                   \o <<Step("post_comment", "redaction_notice", "")>>
             ELSE <<>>)
    \o (IF i.tagged THEN <<Step("edit_title", "", "title")>> ELSE <<>>)
    \o (IF missing_fields(i, c) # {}
          THEN add_if_absent(i, "needs-info")
               \o <<Step("post_comment", "request_more_info", "")>>
          ELSE <<>>)
    \o (IF can_add_backlog(i, c)
          THEN (IF "Triaged" \in i.labels THEN <<>>
                ELSE <<Step("post_label", "Triaged", ""),
                       Step("post_comment", "triaged_backlog_notice", "Triaged")>>)
               \o (IF "Backlog" \in i.labels THEN <<>>
                   ELSE <<Step("post_label", "Backlog", ""),
                          Step("post_comment", "backlog_added_notice", "Backlog")>>)
          ELSE add_if_absent(i, "needs-product-review")
               \o add_if_absent(i, "needs_work")
               \o <<Step("post_comment", "backlog_gate_blocked_notice", "")>>)
    \o (IF severity(i, c) = "critical" \/ "security" \in i.labels
          THEN <<Step("post_comment", "escalation_notice", "escalation")>>
          ELSE <<>>)
    \o <<Step("get_issue", "labels", "")>>

posted_labels(plan) ==
    {plan[k][2] : k \in {j \in 1..Len(plan) : plan[j][1] = "post_label"}}

\* latest_labels (triage_runner.py 697-705): the labels the service returns
\* once the calls before the refresh have been applied, or labels_list when
\* the response is not ok.
latest_labels(i, c, refresh_ok) ==
    IF refresh_ok
      THEN i.labels \cup posted_labels(triage_plan_before_refresh(i, c))
      ELSE i.labels

\* triaged_if (triage_runner.py 767-794).
triage_complete(i, c) ==
    /\ ("required_fields_present" \in c.triaged_if => c.required_fields \subseteq i.fields)
    /\ ("triage_owner_assigned" \in c.triaged_if => c.default_owner # "")
    /\ ("severity_assigned" \in c.triaged_if => severity(i, c) # "")

\* Variant: the missing Triaged is announced but not added.
pair_enforcement_comment_only(c, latest) ==
    IF "Backlog" \in latest /\ "Triaged" \notin latest
       /\ latest \cap c.skip_if_any_present = {}
      THEN <<Step("post_comment", "label_added", "Triaged")>>
      ELSE <<>>

\* Pair enforcement on the refreshed labels (triage_runner.py 711-765).
pair_enforcement(c, latest) ==
    (IF "Triaged" \in latest /\ "Backlog" \notin latest
        /\ latest \cap c.skip_if_any_present = {}
       THEN <<Step("post_label", "Backlog", ""),
              Step("post_comment", "backlog_added_notice", "Backlog")>>
       ELSE <<>>)
    \o (IF "Backlog" \in latest /\ "Triaged" \notin latest
           /\ latest \cap c.skip_if_any_present = {}
          THEN <<Step("post_label", "Triaged", ""),
                 Step("post_comment", "label_added", "Triaged")>>
          ELSE <<>>)

\* The live block after the refresh (triage_runner.py 707-807); not reached
\* when the refreshed labels hold Triaged (the continue at 707-709).
triage_plan_after_refresh(i, c, latest) ==
    pair_enforcement(c, latest)
    \o (IF triage_complete(i, c) /\ "Needs Triage" \in latest
          THEN <<Step("delete_label", "Needs Triage", "Needs Triage")>>
          ELSE <<>>)

already_triaged(latest) == "Triaged" \in latest

triage_plan(i, c, refresh_ok) ==
    LET latest == latest_labels(i, c, refresh_ok)
    IN  triage_plan_before_refresh(i, c)
        \o (IF already_triaged(latest) THEN <<>>
            ELSE triage_plan_after_refresh(i, c, latest))

\* changed_fields after the first n calls of the plan have returned.
plan_fields(plan, n) ==
    LET hits == {k \in 1..n : plan[k][3] # ""}
        F[k \in 0..n] ==
            IF k = 0 THEN <<>>
            ELSE IF k \in hits THEN Append(F[k - 1], plan[k][3]) ELSE F[k - 1]
    IN  F[n]

\* -------------------------------------------------------- triage: main
\* The search excludes Triaged issues (triage_runner.py 58); an ISSUE_NUMBER
\* override fetches the named issue whatever its labels (352-358).
TriageLabels == {"Triaged", "Backlog", "Needs Triage", "feature-request"}

TriageIssues(e) ==
    {TriageIssue(l, f, s, p, t, k) :
        l \in {x \in SUBSET TriageLabels : e.ISSUE_NUMBER \/ "Triaged" \notin x},
        f \in SUBSET {"description"}, s \in {"", "small", "huge"},
        p \in BOOLEAN, t \in BOOLEAN, k \in {"", "data loss"}}

\* triage main up to the loop (triage_runner.py 255-369). found is the
\* number of issues the query returns (-1: the query raised).
\* The API call of main before the loop (triage_runner.py 346-360): the one
\* issue named by ISSUE_NUMBER, or the search.
triage_main_calls(e) ==
    IF e.ISSUE_NUMBER THEN <<"get_issue">> ELSE <<"search_issues">>

triage_main ==
    /\ runner = "triage"
    /\ pc = "main"
    /\ IF ~env.rules THEN
          /\ Exit(1)
          /\ UNCHANGED <<dry_run, remaining, main_calls>>
       ELSE IF ~env.GITHUB_REPOSITORY THEN
          /\ Exit(0)
          /\ dry_run' = IF env.DRY_RUN = "" THEN ~env.protected_branch
                        ELSE DryRunFlag(env)
          /\ UNCHANGED <<remaining, main_calls>>
       ELSE
          /\ dry_run' = IF env.GITHUB_TOKEN = "" THEN TRUE
                        ELSE IF env.DRY_RUN = "" THEN ~env.protected_branch
                        ELSE DryRunFlag(env)
          /\ main_calls' = triage_main_calls(env)
          /\ \E found \in -1..(IF env.ISSUE_NUMBER THEN 1 ELSE MaxIssues) :
                IF found = -1 THEN Exit(1) /\ UNCHANGED remaining
                ELSE IF found = 0 THEN Exit(0) /\ UNCHANGED remaining
                ELSE /\ pc' = "loop"
                     /\ exit_code' = exit_code
                     /\ remaining' = found
    /\ UNCHANGED <<runner, env, cfg, processed, copilot_assigns_this_run, issue,
                   notes, changed_fields, calls, evts, entry_fields, logged, streak, plain,
                   callVars, logVars>>

\* One iteration of the loop up to the log write (triage_runner.py 371-818).
\* The read-only searches for related docs and duplicates (400-478) add
\* references and a duplicates note to the entry and are left out.
\* Dry-run: analysis only. Live: the calls of the plan in order inside one
\* try block; the k-th raises (k = 0: none) and the rest of the block is
\* skipped. The continue at 707-709 also skips the log write.
triage_pass(candidates) ==
    /\ runner = "triage"
    /\ pc = "loop"
    /\ \E i \in candidates :
          /\ issue' = i
          /\ notes' = triage_notes(i, cfg)
          /\ entry_fields' = triage_entry_fields(i, cfg, dry_run)
          /\ IF dry_run THEN
                /\ calls' = <<>>
                /\ changed_fields' = <<>>
                /\ pc' = "append_log"
             ELSE
                \E refresh_ok \in BOOLEAN :
                  LET plan == triage_plan(i, cfg, refresh_ok)
                  IN  \E k \in 0..Len(plan) :
                        /\ calls' = TryCalls("triage", plan, k)
                        /\ changed_fields' =
                              plan_fields(plan, IF k = 0 THEN Len(plan) ELSE k - 1)
                        /\ pc' = IF k = 0 /\ already_triaged(latest_labels(i, cfg, refresh_ok))
                                   THEN "continue" ELSE "append_log"
    /\ UNCHANGED <<runner, env, cfg, exit_code, dry_run, remaining, processed,
                   copilot_assigns_this_run, evts, logged, streak, plain, main_calls, callVars, logVars>>

triage_issue == triage_pass(TriageIssues(env))

\* Variant: a failed call ends the run with exit code 1.
triage_next_issue_abort ==
    /\ IF \E k \in 1..Len(calls) : calls[k].res = "raise"
         THEN Exit(1) /\ UNCHANGED <<processed, remaining>>
         ELSE /\ processed' = processed + 1
              /\ remaining' = remaining - 1
              /\ IF remaining = 1 THEN Exit(0) ELSE pc' = "loop" /\ exit_code' = exit_code
    /\ issue' = NoIssue
    /\ notes' = <<>>
    /\ changed_fields' = <<>>
    /\ entry_fields' = <<>>
    /\ calls' = <<>>
    /\ UNCHANGED <<runner, env, cfg, dry_run, copilot_assigns_this_run, evts, streak,
                   plain, main_calls, callVars, logVars>>

\* End of an iteration: the locals are rebound; main returns 0 after the
\* last issue (triage_runner.py 371, 842).
triage_next_issue ==
    /\ processed' = processed + 1
    /\ remaining' = remaining - 1
    /\ IF remaining = 1 THEN Exit(0) ELSE pc' = "loop" /\ exit_code' = exit_code
    /\ issue' = NoIssue
    /\ notes' = <<>>
    /\ changed_fields' = <<>>
    /\ entry_fields' = <<>>
    /\ calls' = <<>>
    /\ UNCHANGED <<runner, env, cfg, dry_run, copilot_assigns_this_run, evts, streak, plain, main_calls, callVars, logVars>>

\* audit_entry is appended to triage_log.json (triage_runner.py 820-840).
triage_append_log ==
    /\ runner = "triage"
    /\ pc = "append_log"
    /\ logged' = logged + 1
    /\ triage_next_issue

\* The continue at triage_runner.py 707-709: no log entry is written.
triage_continue ==
    /\ runner = "triage"
    /\ pc = "continue"
    /\ logged' = logged
    /\ triage_next_issue

TriageNext ==
    \/ triage_main
    \/ triage_issue
    \/ triage_append_log
    \/ triage_continue

TriageEnvs ==
    {[DefaultEnv EXCEPT !.DRY_RUN = d, !.GITHUB_TOKEN = t, !.protected_branch = b,
                        !.ISSUE_NUMBER = n] :
        d \in {"", "true"}, t \in {"", "ghp_token"}, b \in BOOLEAN, n \in BOOLEAN}

\* ------------------------------------------------- one external call
\* retry_on_failure's defaults (utils.py 16-18).
max_retries == 5
backoff_factor == 2
base_delay == 1
\* random.uniform(0, 2), in whole seconds (utils.py 50).
Jitter == {0, 1, 2}
\* handle_rate_limit's threshold and minimum sleep (grooming_runner.py 97-98).
LOW_QUOTA == 5
MIN_RATE_SLEEP == 60

\* The API functions of grooming_runner.py that call handle_rate_limit on the
\* response, those that only log a warning when the quota is low, and those
\* that do not read the quota at all.
ThrottledSites == {"close_issue", "post_comment", "github_search_issues",
                   "add_label", "remove_label", "move_card"}
WarningSites == {"github_get_issue", "assign_issue", "get_project_columns",
                 "get_column_cards"}
SilentSites == {"github_graphql_request", "get_most_recent_copilot_event"}
\* triage_runner.py: no retry decorator and no quota handling.
TriageSites == {"triage_runner.github_search_issues", "triage_runner.github_get_issue",
                "triage_runner.post_label", "triage_runner.post_comment"}
Sites == ThrottledSites \cup WarningSites \cup SilentSites \cup TriageSites

wrapped(s) == s \notin TriageSites

\* What one invocation of the function does: return, or raise.
\* HTTPError comes from raise_for_status, with the response's status code.
TransportErrors == {"ConnectionError", "Timeout"}
HTTPErrors == {"HTTPError 500", "HTTPError 403", "HTTPError 400"}
OtherErrors == {"ValueError"}
Answers == {"ok"} \cup TransportErrors \cup HTTPErrors \cup OtherErrors

\* The except clause of retry_on_failure (utils.py 41-45).
caught(answer) == answer \in TransportErrors \cup HTTPErrors

\* sleep_time without the jitter (utils.py 48-49).
RECURSIVE power(_, _)
power(b, n) == IF n = 0 THEN 1 ELSE b * power(b, n - 1)

backoff(n) == base_delay * power(backoff_factor, n - 1)

\* handle_rate_limit (grooming_runner.py 93-103).
handle_rate_limit(left, until_reset) ==
    IF left < LOW_QUOTA
      THEN (IF until_reset > MIN_RATE_SLEEP THEN until_reset ELSE MIN_RATE_SLEEP)
      ELSE 0

\* Seconds the function sleeps on its response before it returns.
rate_limit_sleep(s, left, until_reset) ==
    IF s \in ThrottledSites THEN handle_rate_limit(left, until_reset) ELSE 0

\* ---- one assignment through the nested wrapped functions
\* The HTTP requests of assign_issue with its GraphQL fallback
\* (grooming_runner.py 266 and 341, the latter for the actor lookup, the
\* node-id lookup and the mutation).
Requests == {"patch", "actor", "node", "mutation"}

\* Attempts are counted up to one past the budget of a request.
count(n) == IF n > max_retries THEN n ELSE n + 1

NestIdle == [where |-> "idle", a1 |-> 0, a2 |-> 0, step |-> "", a3 |-> 0, a4 |-> 0]

nest_idle ==
    /\ nest = NestIdle
    /\ http_attempts = [r \in Requests |-> 0]

call_idle ==
    /\ nest_idle
    /\ site = ""
    /\ status = "idle"
    /\ attempt = 0
    /\ invocations = 0
    /\ delays = <<>>
    /\ last_exception = ""
    /\ rate_remaining = 0
    /\ reset_in = 0
    /\ slept = 0

\* The caller calls an API function.
call_begin ==
    /\ status = "idle"
    /\ site' \in Sites
    /\ status' = "calling"
    /\ attempt' = 1
    /\ UNCHANGED <<invocations, delays, last_exception, rate_remaining, reset_in, slept>>
    /\ UNCHANGED <<runVars, logVars, nestVars>>

\* One pass through the try of retry_on_failure's loop (utils.py 38-72), or
\* the single invocation of an undecorated function.
call_attempt ==
    /\ status = "calling"
    /\ invocations' = invocations + 1
    /\ \E answer \in Answers, left \in {0, 4, 5}, until_reset \in {0, 30, 90} :
          IF answer = "ok" THEN
             /\ status' = "returned"
             /\ rate_remaining' = left
             /\ reset_in' = until_reset
             /\ slept' = rate_limit_sleep(site, left, until_reset)
             /\ UNCHANGED last_exception
          ELSE
             /\ last_exception' = answer
             /\ status' = IF wrapped(site) /\ caught(answer) /\ attempt < max_retries
                            THEN "backoff" ELSE "raised"
             /\ UNCHANGED <<rate_remaining, reset_in, slept>>
    /\ UNCHANGED <<site, attempt, delays>>
    /\ UNCHANGED <<runVars, logVars, nestVars>>

\* Variant: the next attempt follows without a sleep.
call_backoff_no_sleep ==
    /\ status = "backoff"
    /\ attempt' = attempt + 1
    /\ status' = "calling"
    /\ UNCHANGED <<site, invocations, delays, last_exception, rate_remaining, reset_in,
                   slept>>
    /\ UNCHANGED <<runVars, logVars, nestVars>>

\* time.sleep(sleep_time) and the next iteration (utils.py 47-59).
call_backoff ==
    /\ status = "backoff"
    /\ \E j \in Jitter : delays' = Append(delays, backoff(attempt) + j)
    /\ attempt' = attempt + 1
    /\ status' = "calling"
    /\ UNCHANGED <<site, invocations, last_exception, rate_remaining, reset_in, slept>>
    /\ UNCHANGED <<runVars, logVars, nestVars>>

\* The caller has the result (or the exception) and goes on.
call_end ==
    /\ status \in {"returned", "raised"}
    /\ site' = ""
    /\ status' = "idle"
    /\ attempt' = 0
    /\ invocations' = 0
    /\ delays' = <<>>
    /\ last_exception' = ""
    /\ rate_remaining' = 0
    /\ reset_in' = 0
    /\ slept' = 0
    /\ UNCHANGED <<runVars, logVars, nestVars>>

\* ---------------------------------------------------- the specification
GroomingNext ==
    \/ grooming_main
    \/ process_issue_guards
    \/ process_issue_stale
    \/ process_issue_needs_info
    \/ process_issue_needs_work
    \/ process_issue_backlog
    \/ process_issue_workflow
    \/ process_issue_return
    \/ grooming_persist

GroomingCfgs ==
    {WithCap(c, n) : c \in {DefaultCfg, BoardCfg}, n \in 0..MaxCap}
    \cup {StaleCfg("close")}

\* Environments in which main returns before the search.
EarlyExitEnvs ==
    {[DefaultEnv EXCEPT !.rules = FALSE],
     [DefaultEnv EXCEPT !.GITHUB_TOKEN = "malformed"],
     [DefaultEnv EXCEPT !.GITHUB_REPOSITORY = FALSE]}
    \cup {[DefaultEnv EXCEPT !.GITHUB_REPOSITORY = FALSE, !.GITHUB_TOKEN = t, !.DRY_RUN = d] :
            t \in Tokens, d \in {"", "true"}}

GroomingEnvs ==
    {[DefaultEnv EXCEPT !.DRY_RUN = d, !.GITHUB_TOKEN = t, !.GROOMING_ACCESS_KEY = k] :
        d \in {"", "true"}, t \in {"", "ghp_token"}, k \in BOOLEAN}
    \cup EarlyExitEnvs

\* ------------------------------------------------------------ the audit log
\* A file is absent or holds a text. A text is the sequence of tokens that
\* json.dump writes one after the other: an opening bracket, one token per
\* entry, a closing bracket.
NoEntry == [issue_number |-> 0, notes |-> <<>>]
Tok(t, e) == [t |-> t, entry |-> e]
Absent == [exists |-> FALSE, text |-> <<>>]
File(text) == [exists |-> TRUE, text |-> text]

PyList(items) == [type |-> "list", items |-> items]
PyDict == [type |-> "dict", items |-> <<>>]

json_dump(v) ==
    IF v.type = "list"
    THEN <<Tok("[", NoEntry)>> \o [k \in 1..Len(v.items) |-> Tok("entry", v.items[k])]
         \o <<Tok("]", NoEntry)>>
    ELSE <<Tok("{", NoEntry), Tok("}", NoEntry)>>

\* json.load: the value of a complete document, a raise on anything else
\* (an empty or truncated text included).
json_load(text) ==
    IF /\ Len(text) >= 2
       /\ text[1].t = "[" /\ text[Len(text)].t = "]"
       /\ \A k \in 2..(Len(text) - 1) : text[k].t = "entry"
    THEN [ok |-> TRUE, value |-> PyList([k \in 1..(Len(text) - 2) |-> text[k + 1].entry])]
    ELSE IF Len(text) = 2 /\ text[1].t = "{" /\ text[2].t = "}"
    THEN [ok |-> TRUE, value |-> PyDict]
    ELSE [ok |-> FALSE, value |-> PyList(<<>>)]

\* Notes are sequences of words; the substring test of sanitize_log_entry is a
\* test on the lower-cased words.
PII_WORDS == {"email", "password", "token"}
lower(w) == IF w = "Token" THEN "token" ELSE w
REDACTED == <<"[REDACTED:", "Potential", "PII]">>

sanitize_log_entry(entry) ==
    IF \E k \in 1..Len(entry.notes) : lower(entry.notes[k]) \in PII_WORDS
    THEN [entry EXCEPT !.notes = REDACTED]
    ELSE entry

MAX_LOG_ENTRIES == MaxIssues

\* logs = [] ; if the file exists: logs = json.load(fh), [] when that raises.
read_logs(f) ==
    IF f.exists /\ json_load(f.text).ok THEN json_load(f.text).value ELSE PyList(<<>>)

\* Entries a pass builds: the issue number and notes the rules write.
RunNotes == {<<>>, <<"Triaged+Backlog", "detected;">>}
RunEntries == [issue_number : 1..MaxIssues, notes : RunNotes]
RunLists == UNION {[1..n -> RunEntries] : n \in 1..MaxIssues}

\* What earlier runs left behind: entries with any notes they wrote, more
\* than MAX_LOG_ENTRIES of them when triage runs, which do not rotate, wrote
\* last.
PriorEntries == {[issue_number |-> 1, notes |-> REDACTED],
                 [issue_number |-> 2, notes |-> <<>>]}
PriorLists == UNION {[1..n -> PriorEntries] : n \in 0..(MAX_LOG_ENTRIES + 1)}

\* The log file before the run: missing, a list written by an earlier run, a
\* write cut short, or a JSON document that is not a list.
PriorFiles ==
    {Absent, File(<<>>), File(<<Tok("[", NoEntry)>>), File(json_dump(PyDict))}
    \cup {File(json_dump(PyList(l))) : l \in PriorLists}

log_idle ==
    /\ log_file = Absent
    /\ tmp_file = Absent
    /\ logs = PyList(<<>>)
    /\ audit_entries = <<>>
    /\ written = 0
    /\ log_before = Absent
    /\ archive_file = Absent

\* ------------------------------------------------------------ specifications
RunInit ==
    \/ InitWith({"grooming"}, GroomingEnvs, GroomingCfgs)
    \/ InitWith({"triage"}, TriageEnvs \cup EarlyExitEnvs, {TriageCfg})

Init == RunInit /\ call_idle /\ log_idle

Next ==
    \/ GroomingNext
    \/ TriageNext

Spec == Init /\ [][Next]_vars

\* Issues for the backlog gate: every combination of the labels and size
\* estimates the gate reads.
GateLabels == {"Backlog", "feature-request", "product-approved", "needs_work",
               "needs-product-review"}

GateIssues ==
    {TriageIssue(l, f, s, FALSE, FALSE, "") :
        l \in SUBSET GateLabels, f \in SUBSET {"description"},
        s \in {"", "small", "huge"}}

triage_gate_issue == triage_pass(GateIssues)

InitGate == InitWith({"triage"}, {DefaultEnv}, {TriageCfg}) /\ call_idle /\ log_idle

NextGate ==
    \/ triage_main
    \/ triage_gate_issue
    \/ triage_append_log
    \/ triage_continue

SpecGate == InitGate /\ [][NextGate]_vars

\* ---- pair enforcement applied twice to one label set
PairLabels == {"Triaged", "Backlog", "wontfix", "Needs Triage", "needs-info",
               "security"}

InitPair ==
    /\ runner = "triage"
    /\ env = DefaultEnv
    /\ cfg = TriageCfg
    /\ pc = "pair"
    /\ exit_code = -1
    /\ dry_run = FALSE
    /\ remaining = 0
    /\ processed = 0
    /\ copilot_assigns_this_run = 0
    /\ issue \in [number : {1}, labels : SUBSET PairLabels]
    /\ notes = <<>>
    /\ changed_fields = <<>>
    /\ calls = <<>>
    /\ evts = <<>>
    /\ entry_fields = <<>>
    /\ logged = 0
    /\ streak = 0
    /\ plain = TRUE
    /\ main_calls = <<>>
    /\ call_idle
    /\ log_idle

\* The refresh has returned the issue's labels; the step from the continue
\* check to the end of pair enforcement runs on them (triage_runner.py
\* 707-765). Labels whose post_label call returned are on the issue afterwards.
pair_apply ==
    /\ pc = "pair"
    /\ processed < 2
    /\ LET latest == issue.labels
           plan == IF already_triaged(latest) THEN <<>> ELSE pair_enforcement(cfg, latest)
       IN  \E k \in 0..Len(plan) :
             LET made == TryCalls(IF processed = 0 THEN "first" ELSE "second", plan, k)
                 added == {made[j].arg : j \in {h \in 1..Len(made) :
                              made[h].op = "post_label" /\ made[h].res = "ok"}}
             IN  /\ calls' = calls \o made
                 /\ issue' = [issue EXCEPT !.labels = @ \cup added]
    /\ processed' = processed + 1
    /\ UNCHANGED <<runner, env, cfg, pc, exit_code, dry_run, remaining,
                   copilot_assigns_this_run, notes, changed_fields, evts, entry_fields,
                   logged, streak, plain, main_calls, callVars, logVars>>

NextPair == pair_apply

SpecPair == InitPair /\ [][NextPair]_vars

InitCall == InitWith({"grooming"}, {DefaultEnv}, {DefaultCfg}) /\ call_idle /\ log_idle

NextCall ==
    \/ call_begin
    \/ call_attempt
    \/ call_backoff
    \/ call_end

SpecCall == InitCall /\ [][NextCall]_vars


InitLog ==
    /\ runner \in {"grooming", "triage"}
    /\ env = DefaultEnv
    /\ cfg = IF runner = "grooming" THEN DefaultCfg ELSE TriageCfg
    /\ pc = "log_load"
    /\ exit_code = -1
    /\ dry_run = FALSE
    /\ remaining = 0
    /\ processed = 0
    /\ copilot_assigns_this_run = 0
    /\ issue = NoIssue
    /\ notes = <<>>
    /\ changed_fields = <<>>
    /\ calls = <<>>
    /\ evts = <<>>
    /\ entry_fields = <<>>
    /\ logged = 0
    /\ streak = 0
    /\ plain = TRUE
    /\ main_calls = <<>>
    /\ call_idle
    /\ log_file \in PriorFiles
    /\ tmp_file = Absent
    /\ logs = PyList(<<>>)
    /\ audit_entries \in RunLists
    /\ written = 0
    /\ log_before = log_file
    /\ archive_file = Absent

\* logs[-MAX_LOG_ENTRIES:] and logs[:-MAX_LOG_ENTRIES] of a list longer than
\* MAX_LOG_ENTRIES (grooming_runner.py 1514-1515).
most_recent_oldest(all) == SubSeq(all, 1, MAX_LOG_ENTRIES)

most_recent(all) == SubSeq(all, Len(all) - MAX_LOG_ENTRIES + 1, Len(all))

entries_to_archive(all) == SubSeq(all, 1, Len(all) - MAX_LOG_ENTRIES)

\* grooming main, 1489-1502: read the log, sanitize and extend. The extend
\* of a value that is no list raises into the enclosing except, which logs
\* the failure and writes nothing.
grooming_log_load ==
    /\ runner = "grooming" /\ pc = "log_load"
    /\ log_before' = log_file
    /\ LET old == read_logs(log_file)
           sanitized_entries == [k \in 1..Len(audit_entries) |->
                                    sanitize_log_entry(audit_entries[k])]
       IN  IF old.type # "list"
           THEN /\ logs' = old
                /\ pc' = "log_done"
           ELSE /\ logs' = PyList(old.items \o sanitized_entries)
                /\ pc' = "rotate"
    /\ UNCHANGED <<runVarsButPc, callVars, log_file, tmp_file, audit_entries, written,
                   archive_file>>

\* grooming main, 1504-1521: a list longer than MAX_LOG_ENTRIES is cut to its
\* most recent entries and the older ones are written to the archive file.
grooming_rotate ==
    /\ runner = "grooming" /\ pc = "rotate"
    /\ IF Len(logs.items) > MAX_LOG_ENTRIES
         THEN /\ logs' = PyList(most_recent(logs.items))
              /\ archive_file' = File(json_dump(PyList(entries_to_archive(logs.items))))
         ELSE UNCHANGED <<logs, archive_file>>
    /\ pc' = "tmp_open"
    /\ UNCHANGED <<runVarsButPc, callVars, log_file, tmp_file, audit_entries, written,
                   log_before>>

\* grooming main, 1523-1525: the temporary file is created empty.
grooming_tmp_open ==
    /\ runner = "grooming" /\ pc = "tmp_open"
    /\ tmp_file' = File(<<>>)
    /\ pc' = "tmp_dump"
    /\ UNCHANGED <<runVarsButPc, callVars, log_file, logs, audit_entries, written, log_before,
                   archive_file>>

\* grooming main, 1526-1527: json.dump writes the next token into the
\* temporary file; after the last one the file is flushed.
grooming_tmp_dump ==
    /\ runner = "grooming" /\ pc = "tmp_dump"
    /\ LET text == json_dump(logs)
           k == Len(tmp_file.text) + 1
       IN  /\ tmp_file' = File(Append(tmp_file.text, text[k]))
           /\ pc' = IF k = Len(text) THEN "replace" ELSE "tmp_dump"
    /\ UNCHANGED <<runVarsButPc, callVars, log_file, logs, audit_entries, written, log_before,
                   archive_file>>

\* grooming main, 1528: os.replace renames the temporary file over the log.
grooming_replace ==
    /\ runner = "grooming" /\ pc = "replace"
    /\ log_file' = tmp_file
    /\ tmp_file' = Absent
    /\ written' = Len(audit_entries)
    /\ pc' = "log_done"
    /\ UNCHANGED <<runVarsButPc, callVars, logs, audit_entries, log_before, archive_file>>

\* triage main, 826-834: read the log and append this issue's entry. The
\* append to a value that is no list raises into the enclosing except, which
\* prints the failure; the loop goes on with the next issue.
triage_log_load ==
    /\ runner = "triage" /\ pc = "log_load"
    /\ log_before' = log_file
    /\ LET old == read_logs(log_file)
       IN  IF old.type # "list"
           THEN /\ logs' = old
                /\ written' = written + 1
                /\ pc' = IF written + 1 = Len(audit_entries) THEN "log_done" ELSE "log_load"
           ELSE /\ logs' = PyList(Append(old.items, audit_entries[written + 1]))
                /\ pc' = "open_w"
                /\ UNCHANGED written
    /\ UNCHANGED <<runVarsButPc, callVars, log_file, tmp_file, audit_entries, archive_file>>

\* triage main, 835: open(log_file, "w") truncates the log itself.
triage_open_w ==
    /\ runner = "triage" /\ pc = "open_w"
    /\ log_file' = File(<<>>)
    /\ pc' = "dump"
    /\ UNCHANGED <<runVarsButPc, callVars, tmp_file, logs, audit_entries, written, log_before,
                   archive_file>>

\* triage main, 836-837: json.dump writes the next token into the log; after
\* the last one the file is closed and the loop goes on with the next issue.
triage_dump ==
    /\ runner = "triage" /\ pc = "dump"
    /\ LET text == json_dump(logs)
           k == Len(log_file.text) + 1
       IN  /\ log_file' = File(Append(log_file.text, text[k]))
           /\ IF k = Len(text)
              THEN /\ written' = written + 1
                   /\ pc' = IF written + 1 = Len(audit_entries) THEN "log_done" ELSE "log_load"
              ELSE /\ pc' = "dump"
                   /\ UNCHANGED written
    /\ UNCHANGED <<runVarsButPc, callVars, tmp_file, logs, audit_entries, log_before, archive_file>>

\* The process dies between two steps of persistence.
crash ==
    /\ pc \in {"log_load", "rotate", "tmp_open", "tmp_dump", "replace", "open_w", "dump"}
    /\ pc' = "crashed"
    /\ UNCHANGED <<runVarsButPc, callVars, logVars>>

NextLog ==
    \/ grooming_log_load
    \/ grooming_rotate
    \/ grooming_tmp_open
    \/ grooming_tmp_dump
    \/ grooming_replace
    \/ triage_log_load
    \/ triage_open_w
    \/ triage_dump
    \/ crash

SpecLog == InitLog /\ [][NextLog]_vars

\* ---- stale handling: issues updated just under, at and over the threshold
\* (ages in half days), under each stale action.
StaleIssues ==
    [number : {1}, state : {"open"}, labels : SUBSET {"Backlog", "needs-info", "needs_work"},
     age : {0, 2 * DEFAULT_STALE_DAYS, 2 * DEFAULT_STALE_DAYS + 1, 2 * DEFAULT_STALE_DAYS + 2},
     assignees : {{}}]

StaleCfgs == {StaleCfg(a) : a \in {"close", "comment", "label"}}

stale_guards == process_issue_entry(StaleIssues)

InitStale ==
    /\ InitWith({"grooming"},
                {[DefaultEnv EXCEPT !.DRY_RUN = d] : d \in {"", "true"}}, StaleCfgs)
    /\ call_idle /\ log_idle

NextStale ==
    \/ grooming_main
    \/ stale_guards
    \/ process_issue_stale
    \/ process_issue_needs_info
    \/ process_issue_needs_work
    \/ process_issue_backlog
    \/ process_issue_workflow
    \/ process_issue_return
    \/ grooming_persist

SpecStale == InitStale /\ [][NextStale]_vars

\* ---- workflow transitions: every list of at most two distinct transitions
\* out of three, the last of which names a column that project_columns does
\* not hold.
Transition(labels, assignee, not_labels, to_column) ==
    [labels |-> labels, assignee |-> assignee, not_labels |-> not_labels,
     to_column |-> to_column]

WorkflowTransitions ==
    {Transition({"Backlog", "ready"}, "alice", {}, "In progress"),
     Transition({"ready"}, "", {"blocked"}, "In review"),
     Transition({"Backlog"}, "", {}, "Done")}

TransitionLists ==
    {<<>>} \cup {<<t>> : t \in WorkflowTransitions}
    \cup {p \in [1..2 -> WorkflowTransitions] : p[1] # p[2]}

WorkflowCfgs ==
    {[BoardCfg EXCEPT !.workflow_enabled = TRUE, !.transitions = ts] : ts \in TransitionLists}

WorkflowIssues ==
    [number : {1}, state : {"open"}, labels : SUBSET {"Backlog", "ready", "blocked"},
     age : {0}, assignees : {{}, {"alice"}}]

workflow_guards == process_issue_entry(WorkflowIssues)

InitWorkflow ==
    /\ InitWith({"grooming"},
                {[DefaultEnv EXCEPT !.DRY_RUN = d] : d \in {"", "true"}}, WorkflowCfgs)
    /\ call_idle /\ log_idle

NextWorkflow ==
    \/ grooming_main
    \/ workflow_guards
    \/ process_issue_stale
    \/ process_issue_needs_info
    \/ process_issue_needs_work
    \/ process_issue_backlog
    \/ process_issue_workflow
    \/ process_issue_return
    \/ grooming_persist

SpecWorkflow == InitWorkflow /\ [][NextWorkflow]_vars

\* ---- the rules in sequence: a Backlog issue last updated a day past the
\* stale threshold that may carry every other label a rule looks at, under
\* stale closing, a board and one workflow transition.
OrderCfgs ==
    {[StaleCfg("close") EXCEPT !.workflow_enabled = TRUE,
         !.transitions = <<Transition({"Backlog"}, "", {}, "In progress")>>]}

OrderIssues ==
    [number : {1}, state : {"open"},
     labels : {{"Backlog"} \cup l : l \in SUBSET {"Triaged", "needs-info", "needs_work"}},
     age : {2 * DEFAULT_STALE_DAYS + 2}, assignees : {{}}]

order_guards == process_issue_entry(OrderIssues)

InitOrder ==
    /\ InitWith({"grooming"},
                {[DefaultEnv EXCEPT !.DRY_RUN = d] : d \in {"", "true"}}, OrderCfgs)
    /\ call_idle /\ log_idle

NextOrder ==
    \/ grooming_main
    \/ order_guards
    \/ process_issue_stale
    \/ process_issue_needs_info
    \/ process_issue_needs_work
    \/ process_issue_backlog
    \/ process_issue_workflow
    \/ process_issue_return
    \/ grooming_persist

SpecOrder == InitOrder /\ [][NextOrder]_vars

\* ---- assign_issue and the wrapped functions it calls. Each of
\* assign_issue (a1), _assign_issue_via_graphql (a2), _find_actor_id_for_
\* assignable and _get_issue_node_id (a3) and github_graphql_request (a4) runs
\* inside retry_on_failure: an HTTPError, ConnectionError or Timeout leaving
\* the function is retried up to max_retries attempts and then raised to the
\* caller; any other exception leaves the wrapper at once. The sleeps between
\* attempts are those of call_backoff and are left out here.
InitNested ==
    /\ InitWith({"grooming"}, {DefaultEnv}, {DefaultCfg})
    /\ call_idle /\ log_idle

\* process_issue calls assign_issue for a Copilot assignee with the
\* GROOMING_ACCESS_KEY set (grooming_runner.py 237-262).
nested_begin ==
    /\ nest.where = "idle"
    /\ nest' = [NestIdle EXCEPT !.where = "patch", !.a1 = 1]
    /\ UNCHANGED <<http_attempts, runVars, logVars, site, status, attempt, invocations,
                   delays, last_exception, rate_remaining, reset_in, slept>>

\* The error leaves assign_issue's body (291-294): its wrapper retries or
\* gives up.
assign_issue_raised(n) ==
    IF n.a1 < max_retries
      THEN [NestIdle EXCEPT !.where = "patch", !.a1 = n.a1 + 1]
      ELSE [n EXCEPT !.where = "failed"]

\* The error leaves _assign_issue_via_graphql's body: its wrapper retries
\* the whole flow or raises to assign_issue.
graphql_flow_raised(n) ==
    IF n.a2 < max_retries
      THEN [n EXCEPT !.where = "post", !.a2 = n.a2 + 1, !.step = "actor", !.a3 = 1, !.a4 = 1]
      ELSE assign_issue_raised(n)

\* The error leaves the body of _find_actor_id_for_assignable or of
\* _get_issue_node_id; the mutation is sent from the flow itself.
lookup_raised(n) ==
    IF n.step = "mutation" THEN graphql_flow_raised(n)
    ELSE IF n.a3 < max_retries THEN [n EXCEPT !.a3 = n.a3 + 1, !.a4 = 1]
    ELSE graphql_flow_raised(n)

\* The HTTPError leaves github_graphql_request's body (342-348).
graphql_request_raised(n) ==
    IF n.a4 < max_retries THEN [n EXCEPT !.a4 = n.a4 + 1] ELSE lookup_raised(n)

\* requests.patch of assign_issue (266-294): success, 422 (the GraphQL
\* fallback starts), or another failure.
nested_patch ==
    /\ nest.where = "patch"
    /\ http_attempts' = [http_attempts EXCEPT !["patch"] = count(@)]
    /\ \E answer \in {"ok", "422", "error"} :
         nest' = CASE answer = "ok" -> [nest EXCEPT !.where = "done"]
                   [] answer = "422" ->
                        [nest EXCEPT !.where = "post", !.a2 = 1, !.step = "actor",
                                     !.a3 = 1, !.a4 = 1]
                   [] OTHER -> assign_issue_raised(nest)
    /\ UNCHANGED <<runVars, logVars, site, status, attempt, invocations,
                   delays, last_exception, rate_remaining, reset_in, slept>>

\* requests.post of github_graphql_request (341-349) for the current step
\* of _assign_issue_via_graphql (415-448): the data the step needs, a
\* response without them (RuntimeError, not retried by any wrapper), or an
\* HTTP or GraphQL error.
nested_post ==
    /\ nest.where = "post"
    /\ http_attempts' = [http_attempts EXCEPT ![nest.step] = count(@)]
    /\ \E answer \in {"ok", "empty", "error"} :
         nest' = CASE answer = "ok" /\ nest.step = "actor" ->
                        [nest EXCEPT !.step = "node", !.a3 = 1, !.a4 = 1]
                   [] answer = "ok" /\ nest.step = "node" ->
                        [nest EXCEPT !.step = "mutation", !.a3 = 0, !.a4 = 1]
                   [] answer = "ok" /\ nest.step = "mutation" ->
                        [nest EXCEPT !.where = "done"]
                   [] answer = "empty" /\ nest.step # "mutation" ->
                        [nest EXCEPT !.where = "failed"]
                   [] answer = "empty" /\ nest.step = "mutation" ->
                        [nest EXCEPT !.where = "done"]
                   [] OTHER -> graphql_request_raised(nest)
    /\ UNCHANGED <<runVars, logVars, site, status, attempt, invocations,
                   delays, last_exception, rate_remaining, reset_in, slept>>

NextNested ==
    \/ nested_begin
    \/ nested_patch
    \/ nested_post

SpecNested == InitNested /\ [][NextNested]_vars

\* ------------------------------------------------------------ properties
NewCalls == {k \in 1..Len(calls') : k > Len(calls)}
HasNote(n) == \E k \in 1..Len(notes) : notes[k] = n
CAP_NOTE == "skipped assign - per-run cap reached"
PassEnd == pc \in {"return", "append_log", "continue"}
FailedAction == \E k \in 1..Len(calls) :
                    calls[k].op \in MutatingOps /\ calls[k].res = "raise"

\* C1: with a cap >= 0 the run's assignment counter never exceeds the cap;
\* the needs-info and the needs_work rule draw on the same counter, also
\* within one pass over an issue that carries both labels.
C1_CounterWithinCap ==
    runner = "grooming" => copilot_assigns_this_run <= cfg.cap

\* An issue with both labels: the needs-info rule took the only slot and the
\* needs_work rule was denied.
C1_Witness ==
    /\ runner = "grooming" /\ pc = "return"
    /\ cfg.cap = 1 /\ copilot_assigns_this_run = 1
    /\ CallsOf("needs-info", "assign_issue") # {}
    /\ "needs_work" \in issue.labels
    /\ CallsOf("needs_work", "assign_issue") = {}
    /\ HasNote(CAP_NOTE)

\* C2: the counter is incremented only by a step in which an assignment
\* succeeds; an assignment that raises, or returns without assigning, leaves
\* the counter as it was.
C2_IncrementOnlyOnSuccess ==
    [][copilot_assigns_this_run' # copilot_assigns_this_run =>
         \E k \in NewCalls : calls'[k].op = "assign_issue" /\ calls'[k].res = "ok"]_vars

\* C3 as stated: in a live run in which every pass so far was over a
\* needs-info issue with no blocking timeline event, the pass over the k-th
\* issue assigns it when k <= cap, and otherwise leaves the cap note and makes
\* no assignment call.
C3_FirstCapAssigned_AnyLabels ==
    (runner = "grooming" /\ pc = "return" /\ streak >= 0 /\ slot_candidate) =>
        IF streak + 1 <= cfg.cap
          THEN CallsOf("needs-info", "assign_issue") # {}
          ELSE CallsOf("needs-info", "assign_issue") = {} /\ HasNote(CAP_NOTE)

\* C3: the same, over issues none of which carries needs_work as well: the
\* first cap issues are assigned, each later one gets the cap note and no
\* assignment call.
C3_FirstCapAssigned ==
    (runner = "grooming" /\ pc = "return" /\ streak >= 0 /\ slot_candidate /\ plain
       /\ "needs_work" \notin issue.labels) =>
        IF streak + 1 <= cfg.cap
          THEN CallsOf("needs-info", "assign_issue") # {} /\ ~HasNote(CAP_NOTE)
          ELSE CallsOf("needs-info", "assign_issue") = {} /\ HasNote(CAP_NOTE)

\* The second needs-info issue of a run with cap 1 is denied.
C3_Witness ==
    /\ runner = "grooming" /\ pc = "return"
    /\ streak = 1 /\ slot_candidate /\ plain /\ "needs_work" \notin issue.labels
    /\ cfg.cap = 1
    /\ HasNote(CAP_NOTE)
    /\ CallsOf("needs-info", "assign_issue") = {}

\* C4: when the timeline answer of a rule is finished, error, or a start
\* after an error, the rule's step makes no assignment call, leaves the
\* counter unchanged, does not remove Triaged, and ends the notes with the
\* outcome; for finished with In Review configured it calls the move to the
\* In Review column.
C4_BlockingEventFrame ==
    [][(Len(evts') = Len(evts) + 1 /\ evts'[Len(evts')].evt.status = "ok"
          /\ event_branch(evts'[Len(evts')].evt) # "assign") =>
         LET branch == event_branch(evts'[Len(evts')].evt)
             outcome == CASE branch = "error" -> "skipped assign - recent copilot error"
                          [] branch = "restarted" ->
                                "skipped assign - copilot restarted after error"
                          [] branch = "finished" /\ in_review_configured(cfg) ->
                                "moved to In Review (copilot finished)"
                          [] OTHER -> "would move to In Review (no column configured)"
         IN  /\ copilot_assigns_this_run' = copilot_assigns_this_run
             /\ \A k \in NewCalls : calls'[k].op \notin {"assign_issue", "remove_label"}
             /\ (branch = "finished" /\ in_review_configured(cfg) =>
                    \E k \in NewCalls : calls'[k].arg = "in_review")
             /\ Len(notes') > 0 /\ notes'[Len(notes')] = outcome]_vars

\* C5: when a dry run is asked for by DRY_RUN, or no credential is present,
\* neither runner makes a mutating call and the counter stays 0.
C5_DryRunMutatesNothing ==
    (pc # "main" /\ (env.DRY_RUN \in {"1", "true", "yes"} \/ env.GITHUB_TOKEN = "")) =>
        /\ copilot_assigns_this_run = 0
        /\ \A k \in 1..Len(calls) : calls[k].op \notin MutatingOps

\* A dry-run grooming pass over an issue both rules would act on.
C5_Witness ==
    /\ runner = "grooming" /\ pc = "return"
    /\ env.DRY_RUN = "true" /\ env.GITHUB_TOKEN # ""
    /\ has_needs_info(issue, cfg) /\ "needs_work" \in issue.labels
    /\ Len(changed_fields) >= 2

\* C6: a live action that fails does not end the run: the loop goes on to
\* the remaining issues, main exits only when none is left, and then with
\* exit code 0; in both runners.
C6_FailureDoesNotAbort ==
    /\ [](pc = "exit" => remaining = 0 /\ (processed > 0 => exit_code = 0))
    /\ [][(PassEnd /\ FailedAction) =>
            /\ processed' = processed + 1
            /\ remaining' = remaining - 1
            /\ pc' = (IF remaining' > 0 THEN "loop"
                      ELSE IF runner = "grooming" THEN "persist" ELSE "exit")
            /\ (pc' = "exit" => exit_code' = 0)]_vars

\* The first of two issues of a live triage run ends with a failed call.
C6_Witness ==
    /\ runner = "triage" /\ pc = "append_log"
    /\ remaining = 2
    /\ FailedAction

\* C7: a pass in which a live action failed leaves a record of the failure
\* in the issue's audit notes.
C7_FailureRecorded ==
    (PassEnd /\ FailedAction) => \E k \in 1..Len(notes) : notes[k] \in FailureNotes

C9_NonTransientNotRetried ==
    (wrapped(site) /\ last_exception \in {"HTTPError 403", "HTTPError 400"}) =>
        /\ status # "backoff"
        /\ invocations = 1
        /\ delays = <<>>

\* C10: a call that returns with a remaining quota below 5 has slept until
\* the reset, and at least 60 seconds, at every call site.
C10_ThrottleEverySite ==
    (status = "returned" /\ rate_remaining < LOW_QUOTA) =>
        slept >= MIN_RATE_SLEEP /\ slept >= reset_in

\* Labels the backlog-gate step of the current pass posted: the post_label
\* calls before the label refresh.
GateAdded ==
    {calls[k].arg : k \in {j \in 1..Len(calls) :
        /\ calls[j].op = "post_label" /\ calls[j].res = "ok"
        /\ \A h \in 1..j : calls[h].op # "get_issue"}}
GateDone == \E k \in 1..Len(calls) : calls[k].op = "get_issue"

\* C11: in a live triage pass the gate step adds Triaged or Backlog only when
\* the body holds a size estimate with an allowed value and the issue is not
\* a feature request or is product-approved; without a size estimate it adds
\* neither, adds needs-product-review and needs_work where absent, and posts
\* the blocked notice.
C11_GateFailsClosed ==
    (runner = "triage" /\ PassEnd /\ ~dry_run) =>
        /\ (GateAdded \cap {"Triaged", "Backlog"} # {} =>
              /\ issue.size # ""
              /\ issue.size \in cfg.allowed_sizes
              /\ ("feature-request" \in issue.labels => "product-approved" \in issue.labels))
        /\ ((issue.size = "" /\ GateDone) =>
              /\ GateAdded \cap {"Triaged", "Backlog"} = {}
              /\ {"needs-product-review", "needs_work"} \subseteq GateAdded \cup issue.labels
              /\ \E k \in 1..Len(calls) : calls[k].arg = "backlog_gate_blocked_notice")

\* An approved feature request without a size estimate takes the blocked branch.
C11_Witness ==
    /\ runner = "triage" /\ pc = "append_log" /\ ~dry_run
    /\ issue.size = "" /\ {"feature-request", "product-approved"} \subseteq issue.labels
    /\ GateDone
    /\ GateAdded = {"needs-product-review", "needs_work"}

\* C12: a triage pass over an issue that already carries Triaged makes no
\* label change, comment, title edit or column move, from the batch search
\* or from the ISSUE_NUMBER override.
C12_TriagedShortCircuit ==
    (runner = "triage" /\ PassEnd /\ "Triaged" \in issue.labels) =>
        \A k \in 1..Len(calls) : calls[k].op \notin MutatingOps

\* C13: every issue processed in a run has contributed exactly one entry to
\* the audit log, in both runners and whichever branch its pass took.
C13_OneEntryPerIssue ==
    pc \in {"loop", "persist", "exit"} => logged = processed

\* C14: pair enforcement applied a second time to the labels the first
\* application left makes no call at all, unless the first application's
\* post_label call raised and so left the labels as they were.
C14_PairIdempotent ==
    (pc = "pair" /\ processed = 2 /\ \E k \in 1..Len(calls) : calls[k].rule = "second") =>
        \E k \in 1..Len(calls) :
            calls[k].rule = "first" /\ calls[k].op = "post_label" /\ calls[k].res = "raise"

\* Backlog without Triaged: the first application added Triaged and posted
\* the comment, the second did nothing.
C14_Witness ==
    /\ pc = "pair" /\ processed = 2
    /\ Len(calls) = 2
    /\ calls[1] = Call("first", "post_label", "Triaged", "ok")
    /\ calls[2] = Call("first", "post_comment", "label_added", "ok")
    /\ {"Triaged", "Backlog"} \subseteq issue.labels

\* C15: when persistence has finished, reading the log file back gives a list
\* whose last entries are the entries of this run, unmodified and in the order
\* written, whatever the log file held before the run.
LogReadBack == json_load(log_file.text)
C15_LogRoundTrip ==
    (pc = "log_done") =>
        /\ log_file.exists
        /\ LogReadBack.ok
        /\ LogReadBack.value.type = "list"
        /\ LET items == LogReadBack.value.items
               n == Len(audit_entries)
           IN  /\ Len(items) >= n
               /\ SubSeq(items, Len(items) - n + 1, Len(items)) = audit_entries

\* C16: after a crash at any point of persistence the log file is either what
\* it was when the write began or the complete new log, in both run modes.
C16_AtomicLogWrite ==
    (pc = "crashed") =>
        \/ log_file = log_before
        \/ log_file = File(json_dump(logs))

\* C17: with a credential that is present but malformed, main of either
\* runner returns 1 before it fetches an issue (the rules file and the
\* repository identifier being present).
C17_MalformedTokenFatal ==
    (pc # "main" /\ env.rules /\ env.GITHUB_REPOSITORY /\ env.GITHUB_TOKEN = "malformed") =>
        /\ pc = "exit"
        /\ exit_code = 1
        /\ main_calls = <<>>
        /\ processed = 0

\* C18 as stated: with the rules file present and no repository identifier,
\* main returns 0 without an API call, whatever the credential and the
\* dry-run flag.
C18_MissingRepoExitsZero_AnyToken ==
    (pc # "main" /\ env.rules /\ ~env.GITHUB_REPOSITORY) =>
        /\ pc = "exit"
        /\ exit_code = 0
        /\ main_calls = <<>> /\ calls = <<>>

\* C18: with the rules file present and no repository identifier, main returns
\* without an API call; it returns 0, except that grooming main, which
\* validates the credential first, returns 1 on a malformed credential.
C18_MissingRepoExitsZero ==
    (pc # "main" /\ env.rules /\ ~env.GITHUB_REPOSITORY) =>
        /\ pc = "exit"
        /\ main_calls = <<>> /\ calls = <<>>
        /\ exit_code = IF runner = "grooming" /\ env.GITHUB_TOKEN = "malformed" THEN 1 ELSE 0

\* Grooming main with a well-formed credential, DRY_RUN set and no repository
\* identifier has returned 0.
C18_Witness ==
    /\ runner = "grooming" /\ pc = "exit" /\ exit_code = 0
    /\ ~env.GITHUB_REPOSITORY /\ env.GITHUB_TOKEN = "ghp_token" /\ env.DRY_RUN = "true"
    /\ main_calls = <<>>

\* A pass in which no call raised and every timeline answer led to the slot
\* check.
QuietPass ==
    /\ \A k \in 1..Len(calls) : calls[k].res = "ok"
    /\ \A k \in 1..Len(evts) :
          evts[k].evt.status # "raise" /\ event_branch(evts[k].evt) = "assign"

\* C19: the first live pass of a run with a free slot, over an open issue with
\* needs_work and without needs-info, makes exactly one needs_work assignment
\* call and posts exactly one guidance comment; over an open issue whose only
\* label is needs-info it makes exactly one needs-info assignment call. Both
\* hold without a groomable status label and with the project board disabled.
C19_AssignsWithoutStatusLabel ==
    (/\ runner = "grooming" /\ pc = "return" /\ processed = 0
     /\ ~dry_run /\ issue.state = "open"
     /\ cfg.cap >= 1 /\ ~cfg.stale_enabled /\ ~cfg.project_enabled
     /\ QuietPass) =>
        /\ ("needs_work" \in issue.labels /\ "needs-info" \notin issue.labels) =>
              /\ Cardinality(CallsOf("needs_work", "assign_issue")) = 1
              /\ Cardinality(CallsOf("needs_work", "post_comment")) = 1
        /\ (issue.labels = {"needs-info"}) =>
              Cardinality(CallsOf("needs-info", "assign_issue")) = 1

\* C20: a grooming pass over an issue without Triaged makes no mutating call.
C20_OnlyTriagedGroomed ==
    (runner = "grooming" /\ pc = "return" /\ "Triaged" \notin issue.labels) =>
        \A k \in 1..Len(calls) : calls[k].op \notin MutatingOps

\* The issue of the pass is closed, or it is open without a groomable status
\* label and the board lookup did not find its card in the Backlog or the
\* In progress column (board disabled, lookup failed, no card, other column).
OnGroomableColumn ==
    \E k \in 1..Len(calls) :
        /\ calls[k].rule = "guard" /\ calls[k].res = "ok"
        /\ \/ calls[k].arg = "Backlog" /\ cfg.backlog_column_id = BACKLOG_COL
           \/ calls[k].arg = "In progress" /\ cfg.in_progress_id = IN_PROGRESS_COL
Ungroomable ==
    \/ issue.state = "closed"
    \/ issue.labels \cap GROOMABLE_STATUS_LABELS = {} /\ ~OnGroomableColumn

C22_StaleExactlyOverThreshold ==
    (runner = "grooming" /\ pc = "needs_info" /\ cfg.stale_enabled) =>
        (HasNote("stale detected") <=>
            (issue.age > 2 * cfg.stale_days /\ issue.labels \cap cfg.stale_labels # {}))

\* Labels on the issue when the pass re-reads them, and when the pass ends.
LabelsAtRefresh == issue.labels \cup GateAdded
LabelsAtEnd ==
    issue.labels \cup {calls[k].arg : k \in {j \in 1..Len(calls) :
                          calls[j].op = "post_label" /\ calls[j].res = "ok"}}

\* C23: a live triage pass in which no call failed and whose re-read labels
\* hold exactly one of Triaged and Backlog and no skip label ends with both
\* on the issue; with a skip label among them nothing is added after the
\* re-read.
C23_PairEnforced ==
    (/\ runner = "triage" /\ PassEnd /\ ~dry_run /\ GateDone
     /\ \A k \in 1..Len(calls) : calls[k].res = "ok") =>
        /\ (/\ Cardinality(LabelsAtRefresh \cap {"Triaged", "Backlog"}) = 1
            /\ LabelsAtRefresh \cap cfg.skip_if_any_present = {}) =>
              {"Triaged", "Backlog"} \subseteq LabelsAtEnd
        /\ (LabelsAtRefresh \cap cfg.skip_if_any_present # {}) =>
              LabelsAtEnd = LabelsAtRefresh

\* C24: a live triage pass in which no call failed, over an issue labelled
\* Needs Triage, removes that label exactly when every required field is in
\* the body, an owner is configured and a severity is set - also when the
\* pass itself has just added Triaged.
C24_CompletionRemovesNeedsTriage ==
    (/\ runner = "triage" /\ PassEnd /\ ~dry_run /\ GateDone
     /\ "Needs Triage" \in issue.labels
     /\ \A k \in 1..Len(calls) : calls[k].res = "ok") =>
        ((\E k \in 1..Len(calls) :
              calls[k].op = "delete_label" /\ calls[k].arg = "Needs Triage")
          <=> triage_complete(issue, cfg))

\* C25: a live grooming pass issues no move to the Backlog column for a card
\* that the lookup finds in the Backlog column already.
C25_NoMoveWhenInBacklogColumn ==
    (runner = "grooming" /\ pc = "return" /\ ~dry_run) =>
        \A k \in 1..Len(calls) :
            (calls[k].rule = "backlog" /\ calls[k].op = "find_card_for_issue"
               /\ calls[k].arg = "Backlog") =>
                ~\E j \in 1..Len(calls) :
                    j > k /\ calls[j].rule = "backlog" /\ calls[j].op = "move_card"

\* A transition matches the issue of the pass: all its required labels are
\* present, none of its not-labels is, and its assignee is unset or assigned.
Matches(k) ==
    /\ cfg.transitions[k].labels \subseteq issue.labels
    /\ cfg.transitions[k].not_labels \cap issue.labels = {}
    /\ (cfg.transitions[k].assignee = "" \/ cfg.transitions[k].assignee \in issue.assignees)
FirstMatching(k) == Matches(k) /\ \A j \in 1..(k - 1) : ~Matches(j)
WorkflowMoves == CallsOf("workflow", "get_project_columns")
PastGuards == ~HasNote("skipped - not in Backlog/In progress")

\* C26 as stated: a live pass that got past the guards requests exactly one
\* workflow move when some transition matches, to the column of the first
\* matching one, and none otherwise.
C26_FirstMatchMoves_AnyColumn ==
    (runner = "grooming" /\ pc = "return" /\ ~dry_run /\ PastGuards) =>
        /\ \A k \in 1..Len(cfg.transitions) : FirstMatching(k) =>
              /\ Cardinality(WorkflowMoves) = 1
              /\ \A c \in WorkflowMoves : calls[c].arg = cfg.transitions[k].to_column
        /\ (\A k \in 1..Len(cfg.transitions) : ~Matches(k)) => WorkflowMoves = {}

\* C26: a live pass that got past the guards requests exactly one workflow
\* move, to the column of the first matching transition, when that column is
\* configured; when no transition matches, or the first matching one names a
\* column that is not configured, it requests none - a later matching
\* transition is never applied.
C26_FirstMatchMoves ==
    (runner = "grooming" /\ pc = "return" /\ ~dry_run /\ PastGuards) =>
        /\ \A k \in 1..Len(cfg.transitions) : FirstMatching(k) =>
              IF cfg.transitions[k].to_column \in {"In progress", "In review"}
                THEN /\ Cardinality(WorkflowMoves) = 1
                     /\ \A c \in WorkflowMoves : calls[c].arg = cfg.transitions[k].to_column
                ELSE WorkflowMoves = {}
        /\ (\A k \in 1..Len(cfg.transitions) : ~Matches(k)) => WorkflowMoves = {}

\* Both transitions of the list match the issue; the move goes to the column
\* of the first.
C26_Witness ==
    /\ runner = "grooming" /\ pc = "return" /\ ~dry_run /\ PastGuards
    /\ Len(cfg.transitions) = 2 /\ Matches(1) /\ Matches(2)
    /\ cfg.transitions[1].to_column = "In review"
    /\ cfg.transitions[2].to_column = "In progress"
    /\ \E c \in WorkflowMoves : calls[c].arg = "In review"
    /\ \E c \in 1..Len(calls) : calls[c].op = "move_card" /\ calls[c].arg = "In review"

\* The log the grooming run read followed by its sanitized entries, and the
\* entries in the archive and in the live log.
FullLog ==
    read_logs(log_before).items
    \o [k \in 1..Len(audit_entries) |-> sanitize_log_entry(audit_entries[k])]
Archived == IF archive_file.exists THEN json_load(archive_file.text).value.items ELSE <<>>
Live == read_logs(log_file).items
Recent(all) ==
    IF Len(all) > MAX_LOG_ENTRIES
      THEN SubSeq(all, Len(all) - MAX_LOG_ENTRIES + 1, Len(all)) ELSE all

\* C27: in a grooming persistence, an archive that has been written holds,
\* followed by the entries kept in memory, the full sequence; the live log is
\* replaced only after the archive of a rotation has been written; and once
\* the write is done the live log holds the most recent entries of the full
\* sequence in order, MAX_LOG_ENTRIES at most.
C27_RotationConserves ==
    (runner = "grooming" /\ pc \in {"log_load", "rotate", "tmp_open", "tmp_dump", "replace",
                                   "log_done", "crashed"}) =>
        /\ archive_file.exists =>
              /\ Len(FullLog) > MAX_LOG_ENTRIES
              /\ Archived \o logs.items = FullLog
              /\ Len(logs.items) = MAX_LOG_ENTRIES
        /\ (log_file # log_before /\ Len(FullLog) > MAX_LOG_ENTRIES) => archive_file.exists
        /\ (written = Len(audit_entries)) =>
              /\ Live = Recent(FullLog)
              /\ Len(Live) <= MAX_LOG_ENTRIES
              /\ Archived \o Live = FullLog

\* A grooming run whose log grew past the maximum by two entries has written
\* the archive and the live log.
C27_Witness ==
    /\ runner = "grooming" /\ pc = "log_done" /\ written = Len(audit_entries)
    /\ Len(Archived) = 2
    /\ Len(Live) = MAX_LOG_ENTRIES
    /\ Live[Len(Live)] = audit_entries[Len(audit_entries)]

\* C28: one assignment sends each of its HTTP requests (the PATCH, the actor
\* lookup, the node-id lookup, the mutation) at most max_retries times.
C28_RetriesDoNotMultiply ==
    \A r \in Requests : http_attempts[r] <= max_retries

\* The position of a rule in process_issue, and the calls of a pass that did
\* what they asked for.
RuleRank(rule) ==
    CASE rule = "guard" -> 0
      [] rule = "stale" -> 1
      [] rule = "needs-info" -> 2
      [] rule = "needs_work" -> 3
      [] rule = "backlog" -> 4
      [] rule = "workflow" -> 5
      [] OTHER -> 6
Done(rule, op) == {k \in CallsOf(rule, op) : calls[k].res = "ok"}
ClosedAsStale == Done("stale", "close_issue") # {}
TriagedRemoved == Done("needs-info", "remove_label") # {}
Moves == {k \in 1..Len(calls) : calls[k].op = "move_card" /\ calls[k].res = "ok"}
LastMove == CHOOSE k \in Moves : \A j \in Moves : j <= k
\* The timeline answer of a rule led to the slot check.
AssignBranch(rule) ==
    \E k \in 1..Len(evts) :
        /\ evts[k].rule = rule
        /\ evts[k].evt.status # "raise"
        /\ event_branch(evts[k].evt) = "assign"

\* C29: in a live pass that got past the guards every rule whose condition
\* holds on the labels read at entry has fired by the end of the pass, whatever
\* the earlier rules did: the stale rule, the needs-info and the needs_work
\* rule (each consults the timeline), the Triaged+Backlog move and the
\* workflow transition (each asks for the board). The calls of the rules
\* appear in the order stale, needs-info, needs_work, Triaged+Backlog,
\* workflow. An issue closed as stale whose needs-info rule reached the slot
\* check with the slot free is handed to assign_issue; an issue whose Triaged
\* label was removed is still taken to the Backlog move; and the last card
\* move of the pass is that of the last rule that moved the card.
C29_SnapshotRulesAllFire ==
    (runner = "grooming" /\ pc = "return" /\ ~dry_run /\ PastGuards
       /\ issue.state = "open") =>
        /\ (cfg.stale_enabled /\ issue.age > 2 * cfg.stale_days + 1
              /\ issue.labels \cap cfg.stale_labels # {})
              => HasNote("stale detected") /\ CallsOf("stale", "post_comment") # {}
        /\ (issue.labels \cap cfg.needs_info_variants # {})
              => /\ HasNote("needs-info detected")
                 /\ CallsOf("needs-info", "get_most_recent_copilot_event") # {}
        /\ ("needs_work" \in issue.labels)
              => /\ HasNote("needs_work detected")
                 /\ CallsOf("needs_work", "get_most_recent_copilot_event") # {}
        /\ ("Triaged" \in issue.labels /\ "Backlog" \in issue.labels)
              => /\ HasNote("Triaged+Backlog detected")
                 /\ CallsOf("backlog", "get_project_columns") # {}
        /\ ("Backlog" \in issue.labels)
              => CallsOf("workflow", "get_project_columns") # {}
        /\ \A k \in 1..(Len(calls) - 1) :
              RuleRank(calls[k].rule) <= RuleRank(calls[k + 1].rule)
        /\ (ClosedAsStale /\ AssignBranch("needs-info") /\ processed = 0)
              => CallsOf("needs-info", "assign_issue") # {}
        /\ TriagedRemoved
              => /\ "Triaged" \in issue.labels
                 /\ ("Backlog" \in issue.labels
                       => CallsOf("backlog", "get_project_columns") # {})
        /\ (Moves # {})
              => /\ \A k \in Moves : RuleRank(calls[k].rule) <= RuleRank(calls[LastMove].rule)
                 /\ (Done("workflow", "move_card") # {}
                       => calls[LastMove].arg = "In progress")
                 /\ (Done("workflow", "move_card") = {} /\ Done("backlog", "move_card") # {}
                       => calls[LastMove].arg = "Backlog")

\* One pass closed the issue as stale, assigned it, removed Triaged, and then
\* moved the card to Backlog and on to In progress.
C29_Witness ==
    /\ runner = "grooming" /\ pc = "return" /\ ~dry_run /\ PastGuards
    /\ ClosedAsStale
    /\ Done("needs-info", "assign_issue") # {}
    /\ TriagedRemoved
    /\ Done("backlog", "move_card") # {}
    /\ Done("workflow", "move_card") # {}
    /\ calls[LastMove].arg = "In progress"

Recorded(f) == \E k \in 1..Len(changed_fields) : changed_fields[k] = f
Assigned(rule) == Done(rule, "assign_issue") # {}

\* C30: what a live grooming pass has recorded in changed_fields was carried
\* out: "assigned to X" only with an assignment of X that was sent and
\* succeeded, "removed Triaged" only with such an assignment before it, and
\* "moved to Backlog column" only with a card move that was performed.
C30_AuditAccurate ==
    (runner = "grooming" /\ pc = "return" /\ ~dry_run) =>
        /\ Recorded("assigned to " \o ASSIGNEE_FOR_NEEDS_INFO) => Assigned("needs-info")
        /\ Recorded("assigned to " \o ASSIGNEE_FOR_NEEDS_WORK) => Assigned("needs_work")
        /\ Recorded("removed Triaged") => Assigned("needs-info")
        /\ Recorded("moved to Backlog column") => Done("backlog", "move_card") # {}

====
